---- MODULE Spec2Model ----
(***************************************************************************)
(* Model of the contract-review pipeline of Contract-AI:                   *)
(*   src/src/lib/ai-analysis.ts        AIAnalysisService                    *)
(*   src/src/lib/document-processor.ts DocumentProcessor                    *)
(*                                                                         *)
(* Texts are sequences of one-character strings.  Positions are the        *)
(* 0-based indices of JavaScript; element i of a JavaScript string is      *)
(* element i + 1 of the sequence.  A JavaScript value that can be of       *)
(* several types is a record with a type tag t.                            *)
(***************************************************************************)
EXTENDS Integers, Sequences, FiniteSets, TLC

VARIABLES
    \* findTextPosition(searchText, fullText) and its result
    searchText, fullText, position,
    \* parseAIResponse(responseText) and its result; aiBody holds the members
    \* of the JSON object the response text carries
    responseText, aiBody, parseResult,
    \* validateFile(file) under the environment variables MAX_FILE_SIZE and
    \* ALLOWED_FILE_TYPES, and its result
    envMaxFileSize, envAllowedTypes, file, validation,
    \* buildAnalysisPrompt: the rules of the playbook and the entries of the
    \* prompt built from them (its REVIEW RULES section)
    playbookRules, prompt,
    \* analyzeMultipleContracts(contracts, playbookId): the playbooks the
    \* database holds, the position in the batch, the result list, the error
    \* thrown
    contracts, playbookId, playbookStore, batchPc, current, results, batchError,
    \* the analyzeContract call in progress: its position, the requests it has
    \* issued to the AI API, the reply to its request, the parsed analysis with
    \* the promise of mapChangesToDocument it awaits, what it returned or threw
    callPc, callRequests, apiReply, callMapping, callOutcome,
    \* the AI API: requests issued so far, requests in flight, replies given
    requestsIssued, inFlight, replies,
    \* htmlToLexical(html) and its result
    html, lexicalState,
    \* countWords / estimatePageCount of a document text and the metrics
    docText, docMetrics,
    \* mapChangesToDocument(aiChanges, contractContent) and its result
    aiChanges, contractContent, enhancedChanges,
    \* a query or mutation of the query client: the kind of operation, its
    \* position, the failures counted so far and the failures it was retried after
    opKind, fetchPc, failureCount, retried,
    \* the database tables the authentication handlers use
    users, organizations, auditLog,
    \* authorize(credentials): its position, the row findUnique resolved with,
    \* and its result
    credentials, authPc, authUser, authResult,
    \* the sign-in events delivered to events.signIn and the position of the
    \* handler of each
    signInEvents, eventPc,
    \* callbacks.signIn({ user, account }): for each call its position, its
    \* arguments, the user it looked up and what it returned or threw, and the
    \* number of calls made
    cbPc, cbArgs, cbExisting, cbResult, cbCalls,
    \* processWordDocument(buffer, originalName): the uploaded file, the position
    \* in the call, what mammoth extracted and converted, and what the call
    \* returned or threw
    wordFile, wordPc, rawResult, htmlResult, processed

textVars == <<searchText, fullText, position>>
parseVars == <<responseText, aiBody, parseResult>>
validateVars == <<envMaxFileSize, envAllowedTypes, file, validation>>
promptVars == <<playbookRules, prompt>>
batchVars == <<contracts, playbookId, playbookStore, batchPc, current, results, batchError>>
callVars == <<callPc, callRequests, apiReply, callMapping, callOutcome>>
apiVars == <<requestsIssued, inFlight, replies>>
htmlVars == <<html, lexicalState>>
wordsVars == <<docText, docMetrics>>
mapVars == <<aiChanges, contractContent, enhancedChanges>>
retryVars == <<opKind, fetchPc, failureCount, retried>>
dbVars == <<users, organizations, auditLog>>
authorizeVars == <<credentials, authPc, authUser, authResult>>
eventVars == <<signInEvents, eventPc>>
callbackVars == <<cbPc, cbArgs, cbExisting, cbResult, cbCalls>>
authVars == <<dbVars, authorizeVars, eventVars, callbackVars>>
processVars == <<wordFile, wordPc, rawResult, htmlResult, processed>>
extraVars == <<htmlVars, wordsVars, mapVars, retryVars, authVars, processVars>>
vars == <<searchText, fullText, position, responseText, aiBody, parseResult,
          envMaxFileSize, envAllowedTypes, file, validation,
          playbookRules, prompt,
          contracts, playbookId, playbookStore, batchPc, current, results, batchError,
          callPc, callRequests, apiReply, callMapping, callOutcome,
          requestsIssued, inFlight, replies,
          html, lexicalState, docText, docMetrics,
          aiChanges, contractContent, enhancedChanges,
          opKind, fetchPc, failureCount, retried,
          users, organizations, auditLog, credentials, authPc, authUser, authResult,
          signInEvents, eventPc,
          cbPc, cbArgs, cbExisting, cbResult, cbCalls,
          wordFile, wordPc, rawResult, htmlResult, processed>>

(***************************************************************************)
(* Bounds of the model.                                                    *)
(***************************************************************************)
MaxFullLen == 4
MaxSearchLen == 2
MaxTokens == 4
MaxReported == 11
MaxEnvLen == 3
MaxRules == 3
MaxContracts == 2

\* The characters of the modelled texts: a letter in both cases, a blank
\* and a line break.
Alphabet == {"a", "A", " ", "\n"}

RECURSIVE SeqsUpTo(_, _)
SeqsUpTo(S, n) ==
    IF n = 0 THEN {<<>>}
    ELSE LET shorter == SeqsUpTo(S, n - 1)
         IN  shorter \cup {Append(s, c) : s \in {t \in shorter : Len(t) = n - 1}, c \in S}

Pending == [pending |-> TRUE]

(***************************************************************************)
(* String primitives of JavaScript.                                        *)
(***************************************************************************)
\* /\s/ : the white-space characters
IsSpace(c) == c \in {" ", "\n"}

\* String.prototype.toLowerCase, character by character
LowerChar(c) == IF c = "A" THEN "a" ELSE c

toLowerCase(text) == [i \in 1..Len(text) |-> LowerChar(text[i])]

\* text.substring(from, to) with 0 <= from <= to <= text.length
substring(text, from, to) == SubSeq(text, from + 1, to)

\* indexOf with the bug of reporting the last occurrence instead of the first
indexOf_LastOccurrence(text, needle) ==
    LET hits == {i \in 0..(Len(text) - Len(needle)) :
                    SubSeq(text, i + 1, i + Len(needle)) = needle}
    IN  IF hits = {} THEN -1
        ELSE CHOOSE i \in hits : \A j \in hits : i >= j

\* String.prototype.indexOf(needle): the least 0-based index at which needle
\* occurs, -1 when it occurs nowhere
indexOf(text, needle) ==
    LET hits == {i \in 0..(Len(text) - Len(needle)) :
                    substring(text, i, i + Len(needle)) = needle}
    IN  IF hits = {} THEN -1
        ELSE CHOOSE i \in hits : \A j \in hits : i <= j

\* replace(/\s+/g, ' ') : every maximal run of white space becomes one blank
RECURSIVE collapseSpaces(_)
collapseSpaces(text) ==
    IF text = <<>> THEN <<>>
    ELSE IF IsSpace(Head(text))
         THEN IF Len(text) > 1 /\ IsSpace(text[2])
              THEN collapseSpaces(Tail(text))
              ELSE <<" ">> \o collapseSpaces(Tail(text))
         ELSE <<Head(text)>> \o collapseSpaces(Tail(text))

\* String.prototype.trim
RECURSIVE trimStart(_)
trimStart(text) ==
    IF text # <<>> /\ IsSpace(Head(text)) THEN trimStart(Tail(text)) ELSE text

RECURSIVE trimEnd(_)
trimEnd(text) ==
    IF text # <<>> /\ IsSpace(text[Len(text)])
    THEN trimEnd(SubSeq(text, 1, Len(text) - 1))
    ELSE text

trim(text) == trimEnd(trimStart(text))

\* the local normalizeText of fuzzyFindPosition
normalizeText(text) == trim(collapseSpaces(toLowerCase(text)))

(***************************************************************************)
(* AIAnalysisService.fuzzyFindPosition                                     *)
(***************************************************************************)
\* The while loop that maps an index of the normalized text back to the
\* original text: state (originalIndex, normalizedIndex).
RECURSIVE mapBackLoop(_, _, _, _)
mapBackLoop(text, index, originalIndex, normalizedIndex) ==
    IF normalizedIndex < index /\ originalIndex < Len(text)
    THEN LET normalizedChar == normalizeText(<<text[originalIndex + 1]>>)
         IN  mapBackLoop(text, index, originalIndex + 1,
                         IF normalizedChar # <<>>
                         THEN normalizedIndex + Len(normalizedChar)
                         ELSE normalizedIndex)
    ELSE originalIndex

fuzzyFindPosition(search, text) ==
    LET normalizedSearch == normalizeText(search)
        normalizedFull == normalizeText(text)
        index == indexOf(normalizedFull, normalizedSearch)
    IN  IF index # -1 THEN mapBackLoop(text, index, 0, 0) ELSE -1

(***************************************************************************)
(* AIAnalysisService.findTextPosition                                      *)
(***************************************************************************)
\* beforeText.split('\n') : the pieces between the line breaks
RECURSIVE splitLines(_)
splitLines(text) ==
    LET breaks == {i \in 1..Len(text) : text[i] = "\n"}
    IN  IF breaks = {} THEN <<text>>
        ELSE LET b == CHOOSE i \in breaks : \A j \in breaks : i <= j
             IN  <<SubSeq(text, 1, b - 1)>> \o splitLines(SubSeq(text, b + 1, Len(text)))

\* the index the exact search or, failing that, the fuzzy search yields
locateIndex(search, text) ==
    IF indexOf(text, search) # -1 THEN indexOf(text, search)
    ELSE fuzzyFindPosition(search, text)

\* findTextPosition with a 0-based column
findTextPosition_ZeroBasedColumn(search, text) ==
    IF search = <<>> THEN [start |-> 0, end |-> 0]
    ELSE LET index == locateIndex(search, text)
         IN  IF index = -1 THEN [start |-> 0, end |-> 0]
             ELSE LET start == index
                      end == index + Len(search)
                      lines == splitLines(substring(text, 0, start))
                  IN  [start |-> start, end |-> end,
                       line |-> Len(lines),
                       column |-> Len(lines[Len(lines)])]

findTextPosition(search, text) ==
    IF search = <<>> THEN [start |-> 0, end |-> 0]
    ELSE LET index == locateIndex(search, text)
         IN  IF index = -1 THEN [start |-> 0, end |-> 0]
             ELSE LET start == index
                      end == index + Len(search)
                      lines == splitLines(substring(text, 0, start))
                  IN  [start |-> start, end |-> end,
                       line |-> Len(lines),
                       column |-> Len(lines[Len(lines)]) + 1]

(***************************************************************************)
(* JavaScript values.  A JSON string is a sequence of characters.          *)
(***************************************************************************)
Absent == [t |-> "absent"]          \* undefined: the member is missing
Null == [t |-> "null"]
NaN == [t |-> "nan"]
Obj == [t |-> "obj"]                \* an object literal
Num(n) == [t |-> "num", n |-> n]
Str(s) == [t |-> "str", s |-> s]
Bool(b) == [t |-> "bool", b |-> b]
Arr(a) == [t |-> "arr", a |-> a]

\* ToBoolean: what !v and v || d test
Truthy(v) ==
    CASE v.t = "num" -> v.n # 0
      [] v.t = "str" -> v.s # <<>>
      [] v.t = "bool" -> v.b
      [] v.t \in {"arr", "obj"} -> TRUE
      [] OTHER -> FALSE

\* v || d
OrElse(v, d) == IF Truthy(v) THEN v ELSE d

DigitValue(c) ==
    CASE c = "0" -> 0 [] c = "1" -> 1 [] c = "2" -> 2 [] c = "3" -> 3
      [] c = "4" -> 4 [] c = "5" -> 5 [] c = "6" -> 6 [] c = "7" -> 7
      [] c = "8" -> 8 [] c = "9" -> 9 [] OTHER -> -1

RECURSIVE DigitsValue(_)
DigitsValue(s) ==
    IF s = <<>> THEN 0
    ELSE 10 * DigitsValue(SubSeq(s, 1, Len(s) - 1)) + DigitValue(s[Len(s)])

\* ToNumber of a string: white space is trimmed, the empty string is 0, a
\* string of decimal digits is its value, any other modelled string is NaN
StringToNumber(s) ==
    LET body == trim(s)
    IN  IF body = <<>> THEN Num(0)
        ELSE IF \A i \in 1..Len(body) : DigitValue(body[i]) >= 0
             THEN Num(DigitsValue(body))
             ELSE NaN

\* ToNumber, the coercion Math.min and Math.max apply to their arguments
ToNumber(v) ==
    CASE v.t = "num" -> v
      [] v.t = "str" -> StringToNumber(v.s)
      [] v.t = "bool" -> IF v.b THEN Num(1) ELSE Num(0)
      [] v.t = "null" -> Num(0)
      [] v.t = "arr" -> IF v.a = <<>> THEN Num(0) ELSE NaN
      [] OTHER -> NaN

\* Math.min(x, y) and Math.max(x, y): NaN when either argument is NaN
mathMin(x, y) ==
    LET a == ToNumber(x)
        b == ToNumber(y)
    IN  IF a.t = "nan" \/ b.t = "nan" THEN NaN
        ELSE IF a.n <= b.n THEN a ELSE b

mathMax(x, y) ==
    LET a == ToNumber(x)
        b == ToNumber(y)
    IN  IF a.t = "nan" \/ b.t = "nan" THEN NaN
        ELSE IF a.n >= b.n THEN a ELSE b

\* whether message begins with prefix (both JavaScript strings)
StartsWith(message, prefix) ==
    Len(message) >= Len(prefix) /\ SubSeq(message, 1, Len(prefix)) = prefix

(***************************************************************************)
(* AIAnalysisService.parseAIResponse                                       *)
(*                                                                         *)
(* A response text is a sequence of tokens: "{" and "}" are braces, "txt"  *)
(* is a run of prose (Prose), and "body" is the text of the members of a   *)
(* JSON object as JSON.stringify writes them, without the outer braces;    *)
(* the values of the members are the record aiBody.  The text of a body    *)
(* whose changes are objects holds the braces of those objects.            *)
(***************************************************************************)
Tokens == {"txt", "{", "}", "body"}

Prose == "Here is the analysis: "

\* JSON.parse of the text `{}`
EmptyObject ==
    [summary |-> Absent, riskScore |-> Absent, complianceScore |-> Absent,
     changes |-> Absent, missingClauses |-> Absent, risks |-> Absent,
     keyTerms |-> Absent]

\* the members of an analysis in the order of the text
MembersBefore == <<"summary", "riskScore", "complianceScore">>
MembersAfter == <<"missingClauses", "risks", "keyTerms">>
MemberNames == MembersBefore \o <<"changes">> \o MembersAfter

RECURSIVE sumOf(_)
sumOf(numbers) ==
    IF numbers = <<>> THEN 0 ELSE numbers[1] + sumOf(Tail(numbers))

\* the number of characters of texts joined with "," 
joinedLength(lengths) ==
    IF lengths = <<>> THEN 0 ELSE sumOf(lengths) + Len(lengths) - 1

\* the number of characters of the text of a change, without its braces
changeLength(change) ==
    joinedLength(
        <<Len("type") + 3 + Len(change.type) + 2>>
        \o (IF change.originalText.t = "absent" THEN <<>>
            ELSE <<Len("originalText") + 3 + Len(change.originalText.s) + 2>>)
        \o <<Len("reason") + 3 + Len(change.reason) + 2>>)

\* the number of characters of the JSON text of a value
jsonLength(v) ==
    CASE v.t = "str" -> Len(v.s) + 2
      [] v.t = "num" -> Len(ToString(v.n))
      [] v.t = "bool" -> IF v.b THEN 4 ELSE 5
      [] v.t = "null" -> 4
      [] v.t = "arr" ->
            2 + joinedLength([i \in 1..Len(v.a) |-> changeLength(v.a[i]) + 2])

\* the lengths of the texts `"name":value` of the members a body carries
memberLengths(body, names) ==
    LET present == SelectSeq(names, LAMBDA f : body[f].t # "absent")
    IN  [i \in 1..Len(present) |->
            Len(present[i]) + 3 + jsonLength(body[present[i]])]

\* whether the text of a body holds braces: its changes are objects
hasObjects(body) == body.changes.t = "arr" /\ body.changes.a # <<>>

\* A piece of a response text: its kind k, its number of characters n, and,
\* for the text of a change, the index i of the change.
Piece(k, n, i) == [k |-> k, n |-> n, i |-> i]

\* the text of a body: the members up to `"changes":[`, the changes in
\* braces, separated by commas, and the text from `]` on; or, without
\* objects, the members in one piece (no piece when there is no member)
bodyPieces(body) ==
    IF hasObjects(body)
    THEN LET before == memberLengths(body, MembersBefore)
             after == memberLengths(body, MembersAfter)
             changes == body.changes.a
             element(i) ==
                 (IF i = 1 THEN <<>> ELSE <<Piece("sep", 1, 0)>>)
                 \o <<Piece("{", 1, i), Piece("change", changeLength(changes[i]), i),
                      Piece("}", 1, i)>>
             elements[i \in 0..Len(changes)] ==
                 IF i = 0 THEN <<>> ELSE elements[i - 1] \o element(i)
         IN  <<Piece("pre", sumOf(before) + Len(before) + Len("changes") + 4, 0)>>
             \o elements[Len(changes)]
             \o <<Piece("post", 1 + sumOf(after) + Len(after), 0)>>
    ELSE LET all == memberLengths(body, MemberNames)
         IN  IF all = <<>> THEN <<>> ELSE <<Piece("members", joinedLength(all), 0)>>

\* the characters of a response text, in pieces
RECURSIVE pieces(_, _)
pieces(tokens, body) ==
    IF tokens = <<>> THEN <<>>
    ELSE (CASE tokens[1] = "body" -> bodyPieces(body)
            [] tokens[1] = "txt" -> <<Piece("txt", Len(Prose), 0)>>
            [] OTHER -> <<Piece(tokens[1], 1, 0)>>)
         \o pieces(Tail(tokens), body)

\* responseText.match(/\{[\s\S]*\}/): from the first "{" to the last "}"
\* after it; <<>> stands for null (no match)
jsonMatch(text) ==
    LET opens == {i \in 1..Len(text) : text[i].k = "{"}
        closes == {j \in 1..Len(text) : text[j].k = "}"}
    IN  IF opens = {} THEN <<>>
        ELSE LET first == CHOOSE i \in opens : \A k \in opens : i <= k
                 after == {j \in closes : j > first}
             IN  IF after = {} THEN <<>>
                 ELSE LET last == CHOOSE j \in after : \A k \in after : j >= k
                      IN  SubSeq(text, first, last)

\* the number of characters before piece j of a text
offset(text, j) == sumOf([i \in 1..(j - 1) |-> text[i].n])

\* the object a change reads as where an analysis is expected: the members
\* of an analysis are undefined
changeObject(change) ==
    [f \in DOMAIN EmptyObject \cup DOMAIN change |->
        IF f \in DOMAIN change THEN change[f] ELSE Absent]

\* the messages of the SyntaxError of JSON.parse (V8, Node 20)
afterJson(at) ==
    "Unexpected non-whitespace character after JSON at position " \o ToString(at)

afterValue(at) ==
    "Expected ',' or '}' after property value in JSON at position " \o ToString(at)

afterElement(at) ==
    "Expected ',' or ']' after array element in JSON at position " \o ToString(at)

afterBrace(at) ==
    "Expected property name or '}' in JSON at position " \o ToString(at)

\* JSON.parse of a matched text, which begins with "{" and ends with "}":
\* the object that ends at piece `last` when the text is that object and
\* nothing more, the SyntaxError of the first character that does not fit
\* otherwise
closedAt(match, last, value) ==
    IF Len(match) = last THEN [ok |-> TRUE, value |-> value]
    ELSE [ok |-> FALSE, message |-> afterJson(offset(match, last + 1))]

jsonParse(match, body) ==
    LET post == 4 * (IF hasObjects(body) THEN Len(body.changes.a) ELSE 0) + 2
    IN  CASE match[2].k = "}" -> closedAt(match, 2, EmptyObject)
          [] match[2].k = "change" ->
                closedAt(match, 3, changeObject(body.changes.a[match[2].i]))
          [] match[2].k = "members" ->
                IF match[3].k = "}" THEN closedAt(match, 3, body)
                ELSE [ok |-> FALSE, message |-> afterValue(offset(match, 3))]
          [] match[2].k = "pre" ->
                IF Len(match) < post
                THEN [ok |-> FALSE,
                      message |-> afterElement(offset(match, Len(match) + 1))]
                ELSE IF match[post + 1].k = "}" THEN closedAt(match, post + 1, body)
                ELSE [ok |-> FALSE, message |-> afterValue(offset(match, post + 1))]
          [] OTHER -> [ok |-> FALSE, message |-> afterBrace(1)]

\* whether JSON.parse accepts the matched text
jsonParses(match, body) == jsonParse(match, body).ok

\* the validation with the bug of not testing the type of riskScore
validStructure_NoTypeTest(analysis) == Truthy(analysis.summary)

\* the test of `Validate required fields`
validStructure(analysis) == Truthy(analysis.summary) /\ analysis.riskScore.t = "num"

\* the assignments after the validation
normalizeAnalysis(analysis) ==
    [analysis EXCEPT
        !.changes = OrElse(analysis.changes, Arr(<<>>)),
        !.missingClauses = OrElse(analysis.missingClauses, Arr(<<>>)),
        !.risks = OrElse(analysis.risks, Arr(<<>>)),
        !.keyTerms = OrElse(analysis.keyTerms, Arr(<<>>)),
        !.riskScore = mathMax(Num(0), mathMin(Num(10), analysis.riskScore)),
        !.complianceScore =
            mathMax(Num(0), mathMin(Num(10), OrElse(analysis.complianceScore, Num(5))))]

\* the message of the error thrown inside the try block, "" when none is
parseFailure(tokens, body) ==
    LET match == jsonMatch(pieces(tokens, body))
    IN  IF match = <<>> THEN "No JSON found in AI response"
        ELSE IF ~jsonParses(match, body) THEN jsonParse(match, body).message
        ELSE IF ~validStructure(jsonParse(match, body).value)
             THEN "Invalid analysis structure"
        ELSE ""

parseAIResponse(tokens, body) ==
    IF parseFailure(tokens, body) = ""
    THEN [ok |-> TRUE,
          analysis |->
              normalizeAnalysis(jsonParse(jsonMatch(pieces(tokens, body)), body).value)]
    ELSE [ok |-> FALSE,
          message |-> "Failed to parse AI response: " \o parseFailure(tokens, body)]

(***************************************************************************)
(* DocumentProcessor.validateFile                                          *)
(*                                                                         *)
(* An environment variable is Unset or a sequence: MAX_FILE_SIZE a         *)
(* sequence of characters, ALLOWED_FILE_TYPES a sequence of MIME type      *)
(* names and "," separators.  A file type is a sequence of names (one name *)
(* for a MIME type, none for the empty type).                              *)
(***************************************************************************)
Unset == <<"unset">>

\* the '94371840' of `process.env.MAX_FILE_SIZE || '94371840'`
DefaultMaxFileSize == <<"9", "4", "3", "7", "1", "8", "4", "0">>

DefaultAllowedTypes ==
    << <<"application/vnd.openxmlformats-officedocument.wordprocessingml.document">>,
       <<"application/msword">>,
       <<"application/pdf">>,
       <<"text/plain">> >>

\* the longest prefix of decimal digits
RECURSIVE leadingDigits(_)
leadingDigits(s) ==
    IF s # <<>> /\ DigitValue(Head(s)) >= 0
    THEN <<Head(s)>> \o leadingDigits(Tail(s))
    ELSE <<>>

\* parseInt(s) of a string without sign, white space or radix prefix: the
\* value of its leading digits, NaN when it does not begin with a digit
parseInt(s) ==
    IF leadingDigits(s) = <<>> THEN NaN ELSE Num(DigitsValue(leadingDigits(s)))

\* String.prototype.split(','): the pieces between the separators
RECURSIVE splitCommas(_)
splitCommas(s) ==
    LET commas == {i \in 1..Len(s) : s[i] = ","}
    IN  IF commas = {} THEN <<s>>
        ELSE LET c == CHOOSE i \in commas : \A j \in commas : i <= j
             IN  <<SubSeq(s, 1, c - 1)>> \o splitCommas(SubSeq(s, c + 1, Len(s)))

\* parseInt(process.env.MAX_FILE_SIZE || '94371840')
maxSize(envMax) ==
    parseInt(IF envMax = Unset \/ envMax = <<>> THEN DefaultMaxFileSize ELSE envMax)

\* process.env.ALLOWED_FILE_TYPES?.split(',') || [the four default types]
allowedTypes(envTypes) ==
    IF envTypes = Unset THEN DefaultAllowedTypes ELSE splitCommas(envTypes)

\* Array.prototype.includes
includes(list, x) == \E i \in 1..Len(list) : list[i] = x

\* file.size > maxSize: a comparison with NaN is false
exceeds(size, max) == max.t = "num" /\ size > max.n

validateFile(f, envMax, envTypes) ==
    IF exceeds(f.size, maxSize(envMax))
    THEN [valid |-> FALSE, error |-> "File size exceeds maximum allowed size"]
    ELSE IF ~includes(allowedTypes(envTypes), f.type)
         THEN [valid |-> FALSE, error |-> "File type is not supported"]
         ELSE [valid |-> TRUE]

(***************************************************************************)
(* AIAnalysisService.buildAnalysisPrompt: the REVIEW RULES section         *)
(***************************************************************************)
Severities == {"CRITICAL", "HIGH", "MEDIUM", "LOW", "INFO"}

\* the severityOrder table of the comparator
severityOrder(sev) ==
    CASE sev = "CRITICAL" -> 0 [] sev = "HIGH" -> 1 [] sev = "MEDIUM" -> 2
      [] sev = "LOW" -> 3 [] sev = "INFO" -> 4

\* the comparator with the bug of ignoring the severity
compareRules_OrderIndexOnly(a, b) == a.orderIndex - b.orderIndex

\* the comparator handed to sort
compareRules(a, b) ==
    LET severityDiff == severityOrder(a.severity) - severityOrder(b.severity)
    IN  IF severityDiff # 0 THEN severityDiff ELSE a.orderIndex - b.orderIndex

\* playbook.rules.filter(rule => rule.isActive)
RECURSIVE filterActive(_)
filterActive(rules) ==
    IF rules = <<>> THEN <<>>
    ELSE IF Head(rules).isActive
         THEN <<Head(rules)>> \o filterActive(Tail(rules))
         ELSE filterActive(Tail(rules))

\* Array.prototype.sort is stable: a rule goes behind every rule that does
\* not compare greater than it
insertRule(sorted, rule) ==
    LET behind == {i \in 1..Len(sorted) : compareRules(sorted[i], rule) <= 0}
        k == IF behind = {} THEN 0 ELSE CHOOSE i \in behind : \A j \in behind : i >= j
    IN  SubSeq(sorted, 1, k) \o <<rule>> \o SubSeq(sorted, k + 1, Len(sorted))

RECURSIVE sortRules(_)
sortRules(rules) ==
    IF rules = <<>> THEN <<>>
    ELSE insertRule(sortRules(SubSeq(rules, 1, Len(rules) - 1)), rules[Len(rules)])

\* sortedRules.forEach((rule, index) => ...): one entry per rule, headed
\* `Rule ${index + 1}` and carrying the rule's id and severity
reviewRules(rules) ==
    LET sortedRules == sortRules(filterActive(rules))
    IN  [index \in 1..Len(sortedRules) |->
            [number |-> index, id |-> sortedRules[index].id,
             severity |-> sortedRules[index].severity]]

\* the prompt, as far as the rules decide it
buildAnalysisPrompt(rules) == [reviewRules |-> reviewRules(rules)]

(***************************************************************************)
(* AIAnalysisService.mapChangesToDocument and analyzeContract              *)
(***************************************************************************)
\* { ...change, position }
withPosition(change, pos) ==
    [f \in DOMAIN change \cup {"position"} |->
        IF f = "position" THEN pos ELSE change[f]]

\* a mapping that drops the changes it finds no position for
mapChangesToDocument_DropsUnlocated(changes, content) ==
    LET mapped == [i \in 1..Len(changes) |->
                      withPosition(changes[i],
                                   findTextPosition(OrElse(changes[i].originalText, Str(<<>>)).s,
                                                    content))]
    IN  SelectSeq(mapped, LAMBDA change : "line" \in DOMAIN change.position)

\* changes.map(change => ...) over an array of changes
mapChangesToDocument(changes, content) ==
    [i \in 1..Len(changes) |->
        withPosition(changes[i],
                     findTextPosition(OrElse(changes[i].originalText, Str(<<>>)).s,
                                      content))]

\* A reply of the AI API to messages.create: the promise is rejected, with an
\* Error or with a value that is no Error, or resolved with a message whose
\* content is a list of blocks; a text block carries the response text
\* (tokens and the members of its object).
Rejected(message) == [kind |-> "rejected", isError |-> TRUE, message |-> message]
RejectedWith(value) == [kind |-> "rejected", isError |-> FALSE, value |-> value]
Resolved(content) == [kind |-> "resolved", content |-> content]
TextBlock(tokens, body) == [type |-> "text", text |-> tokens, body |-> body]
ToolUseBlock == [type |-> "tool_use"]

Returned(analysis) == [kind |-> "returned", analysis |-> analysis]
Thrown(message) == [kind |-> "thrown", message |-> message]

\* error instanceof Error ? error.message : 'Unknown error'
caughtMessage(error) == IF error.isError THEN error.message ELSE "Unknown error"

\* replyFailure with the bug of not testing for an empty text
replyFailure_NoEmptyTest(reply) ==
    IF reply.kind = "rejected" THEN caughtMessage(reply)
    ELSE IF reply.content = <<>> \/ reply.content[1].type # "text"
         THEN "Invalid response format from AI"
    ELSE LET parsed == parseAIResponse(reply.content[1].text, reply.content[1].body)
         IN  IF ~parsed.ok THEN parsed.message ELSE ""

\* the message the catch block of analyzeContract reads from the error raised
\* between the reply and the call of mapChangesToDocument, "" when none is
replyFailure(reply) ==
    IF reply.kind = "rejected" THEN caughtMessage(reply)
    ELSE IF reply.content = <<>> \/ reply.content[1].type # "text"
         THEN "Invalid response format from AI"
    ELSE IF pieces(reply.content[1].text, reply.content[1].body) = <<>>
         THEN "Empty response from AI"
    ELSE LET parsed == parseAIResponse(reply.content[1].text, reply.content[1].body)
         IN  IF ~parsed.ok THEN parsed.message ELSE ""

\* the promise the async mapChangesToDocument returns: rejected with the
\* TypeError of changes.map when changes is no array, fulfilled with the
\* mapped changes otherwise
mappingPromise(changes, content) ==
    IF changes.t # "arr"
    THEN [kind |-> "rejected", isError |-> TRUE,
          message |-> "changes.map is not a function"]
    ELSE [kind |-> "fulfilled", value |-> mapChangesToDocument(changes.a, content)]

\* what analyzeContract returns or throws once the promise of
\* mapChangesToDocument has settled
mappedOutcome(analysis, promise) ==
    IF promise.kind = "rejected"
    THEN Thrown("AI analysis failed: " \o caughtMessage(promise))
    ELSE Returned([analysis EXCEPT !.changes = Arr(promise.value)])

(***************************************************************************)
(* Specification of the text locator: the inputs are drawn from the        *)
(* bounded texts, the action applies findTextPosition.                     *)
(***************************************************************************)
HtmlIdle == html = <<>> /\ lexicalState = Pending

WordsIdle == docText = <<>> /\ docMetrics = Pending

MapIdle == aiChanges = <<>> /\ contractContent = <<>> /\ enhancedChanges = Pending

RetryIdle == opKind = "query" /\ fetchPc = "idle" /\ failureCount = 0 /\ retried = <<>>

AuthIdle ==
    /\ users = {} /\ organizations = {} /\ auditLog = <<>>
    /\ credentials = Pending /\ authPc = "idle" /\ authUser = Pending
    /\ authResult = Pending
    /\ signInEvents = <<>> /\ eventPc = <<>>
    /\ cbPc = <<>> /\ cbArgs = <<>> /\ cbExisting = <<>>
    /\ cbResult = <<>> /\ cbCalls = 0

ProcessIdle ==
    /\ wordFile = Pending /\ wordPc = "idle" /\ rawResult = Pending
    /\ htmlResult = Pending /\ processed = Pending

ExtraIdle == HtmlIdle /\ WordsIdle /\ MapIdle /\ RetryIdle /\ AuthIdle /\ ProcessIdle

TextIdle == searchText = <<>> /\ fullText = <<>> /\ position = Pending

ParseIdle == responseText = <<>> /\ aiBody = EmptyObject /\ parseResult = Pending

ValidateIdle ==
    /\ envMaxFileSize = Unset /\ envAllowedTypes = Unset
    /\ file = [size |-> 0, type |-> <<>>] /\ validation = Pending

PromptIdle == playbookRules = <<>> /\ prompt = Pending

BatchIdle ==
    /\ contracts = <<>> /\ playbookId = "p1" /\ playbookStore = {}
    /\ batchPc = "idle" /\ current = 0 /\ results = <<>> /\ batchError = ""
    /\ callPc = "idle" /\ callRequests = 0 /\ apiReply = Pending
    /\ callMapping = Pending /\ callOutcome = Pending
    /\ requestsIssued = 0 /\ inFlight = 0 /\ replies = <<>>

\* the variables and the idle state of the analysis service and the upload
\* validation
serviceVars ==
    <<textVars, parseVars, validateVars, promptVars, batchVars, callVars, apiVars>>

ServiceIdle == TextIdle /\ ParseIdle /\ ValidateIdle /\ PromptIdle /\ BatchIdle

InitText ==
    /\ ParseIdle /\ ValidateIdle /\ PromptIdle /\ BatchIdle
    /\ ExtraIdle
    /\ searchText \in SeqsUpTo(Alphabet, MaxSearchLen)
    /\ fullText \in SeqsUpTo(Alphabet, MaxFullLen)
    /\ position = Pending

FindTextPosition ==
    /\ position = Pending
    /\ position' = findTextPosition(searchText, fullText)
    /\ UNCHANGED <<searchText, fullText>>
    /\ UNCHANGED <<parseVars, validateVars, promptVars, batchVars, callVars, apiVars, extraVars>>

NextText == FindTextPosition

SpecText == InitText /\ [][NextText]_vars

(***************************************************************************)
(* Specification of the response parser: the response text and the members *)
(* of its JSON object are drawn from bounded sets, the action applies      *)
(* parseAIResponse.                                                        *)
(***************************************************************************)
\* a suggested change as the AI reports it (no position yet)
Change(original) ==
    [type |-> "REPLACEMENT", originalText |-> original, reason |-> <<"r">>]

ReportedNumbers == {Num(n) : n \in -2..MaxReported}

SummaryValues == {Absent, Null, Str(<<>>), Str(<<"s">>)}
RiskValues == ReportedNumbers \cup {Absent, Null, Str(<<"7">>)}
ComplianceValues ==
    ReportedNumbers \cup
        {Absent, Null, Str(<<>>), Str(<<"7">>), Str(<<"h", "i", "g", "h">>), Bool(TRUE)}
ListValues == {Absent, Null, Arr(<<>>), Str(<<"x">>)}
ChangesValues ==
    ListValues \cup {Arr(<<Change(Str(<<"a">>))>>), Arr(<<Change(Absent), Change(Str(<<"A", "a">>))>>)}

\* a well-formed analysis, as the system prompt asks for it
SampleBody ==
    [summary |-> Str(<<"s">>), riskScore |-> Num(7), complianceScore |-> Num(8),
     changes |-> Arr(<<Change(Str(<<"a">>))>>), missingClauses |-> Arr(<<>>),
     risks |-> Arr(<<>>), keyTerms |-> Arr(<<>>)]

\* bodies that vary the validated members and the scores
ScoreBodies ==
    {[SampleBody EXCEPT !.summary = sm, !.riskScore = rs, !.complianceScore = cs] :
        sm \in SummaryValues, rs \in RiskValues, cs \in ComplianceValues}

\* bodies that vary the list members
ListBodies ==
    {[SampleBody EXCEPT !.changes = ch, !.missingClauses = mc, !.risks = rk,
                        !.keyTerms = kt] :
        ch \in ChangesValues, mc \in ListValues, rk \in ListValues, kt \in ListValues}

WellFormedTexts == {<<"{", "body", "}">>, <<"txt", "{", "body", "}", "txt">>}

ParseInputs ==
    {[tokens |-> tk, body |-> bd] :
        tk \in SeqsUpTo(Tokens, MaxTokens), bd \in {SampleBody, EmptyObject}}
    \cup {[tokens |-> tk, body |-> bd] :
            tk \in WellFormedTexts, bd \in ScoreBodies \cup ListBodies}

InitParse ==
    /\ TextIdle /\ ValidateIdle /\ PromptIdle /\ BatchIdle
    /\ ExtraIdle
    /\ \E in \in ParseInputs : responseText = in.tokens /\ aiBody = in.body
    /\ parseResult = Pending

ParseAIResponse ==
    /\ parseResult = Pending
    /\ parseResult' = parseAIResponse(responseText, aiBody)
    /\ UNCHANGED <<responseText, aiBody>>
    /\ UNCHANGED <<textVars, validateVars, promptVars, batchVars, callVars, apiVars, extraVars>>

NextParse == ParseAIResponse

SpecParse == InitParse /\ [][NextParse]_vars

(***************************************************************************)
(* Specification of the upload validation: the environment and the file    *)
(* are drawn from bounded sets, the action applies validateFile.           *)
(***************************************************************************)
EnvChars == {"1", "0", "M"}

FileSizes == {0, 1, 2, 10, 11, 12, 100, 101, 112, 94371839, 94371840, 94371841}

FileTypes == {<<"application/pdf">>, <<"text/plain">>, <<"image/png">>, <<>>}

EnvTypeSettings ==
    {Unset, <<>>, <<"image/png">>, <<"image/png", ",", "application/pdf">>,
     <<"image/png", "application/pdf">>}

InitValidate ==
    /\ TextIdle /\ ParseIdle /\ PromptIdle /\ BatchIdle
    /\ ExtraIdle
    /\ envMaxFileSize \in {Unset} \cup SeqsUpTo(EnvChars, MaxEnvLen)
    /\ envAllowedTypes \in EnvTypeSettings
    /\ file \in [size : FileSizes, type : FileTypes]
    /\ validation = Pending

ValidateFile ==
    /\ validation = Pending
    /\ validation' = validateFile(file, envMaxFileSize, envAllowedTypes)
    /\ UNCHANGED <<envMaxFileSize, envAllowedTypes, file>>
    /\ UNCHANGED <<textVars, parseVars, promptVars, batchVars, callVars, apiVars, extraVars>>

NextValidate == ValidateFile

SpecValidate == InitValidate /\ [][NextValidate]_vars

(***************************************************************************)
(* Specification of the prompt builder: the rules of the playbook are      *)
(* drawn from bounded sets, the action builds the REVIEW RULES section.    *)
(***************************************************************************)
OrderIndexes == {1, 2}

\* the rule lists of a playbook; the id of a rule is unique
RuleLists ==
    UNION {[1..n -> [isActive : BOOLEAN, severity : Severities, orderIndex : OrderIndexes]] :
            n \in 0..MaxRules}

WithIds(rules) ==
    [i \in 1..Len(rules) |->
        [id |-> i, isActive |-> rules[i].isActive, severity |-> rules[i].severity,
         orderIndex |-> rules[i].orderIndex]]

InitPrompt ==
    /\ TextIdle /\ ParseIdle /\ ValidateIdle /\ BatchIdle
    /\ ExtraIdle
    /\ \E rules \in RuleLists : playbookRules = WithIds(rules)
    /\ prompt = Pending

BuildAnalysisPrompt ==
    /\ prompt = Pending
    /\ prompt' = buildAnalysisPrompt(playbookRules)
    /\ UNCHANGED playbookRules
    /\ UNCHANGED <<textVars, parseVars, validateVars, batchVars, callVars, apiVars, extraVars>>

NextPrompt == BuildAnalysisPrompt

SpecPrompt == InitPrompt /\ [][NextPrompt]_vars

(***************************************************************************)
(* Specification of the analysis service: analyzeMultipleContracts over a  *)
(* bounded list of contracts, calling analyzeContract for each; the AI API *)
(* answers each request with any of the modelled replies.  The steps are   *)
(* the stretches of code between two awaits.                               *)
(***************************************************************************)
ContractContents == {<<"a", " ", "a", "A">>, <<"A">>}

ContractLists ==
    UNION {[1..n -> ContractContents] : n \in 0..MaxContracts}

WithContractIds(contents) ==
    [i \in 1..Len(contents) |-> [id |-> i, content |-> contents[i]]]

\* the replies of the AI API
ApiReplies ==
    {Rejected("Connection error."),
     RejectedWith("aborted"),
     Resolved(<<>>),
     Resolved(<<ToolUseBlock>>),
     Resolved(<<TextBlock(<<>>, EmptyObject)>>),
     Resolved(<<TextBlock(<<"txt">>, EmptyObject)>>),
     Resolved(<<TextBlock(<<"{", "body">>, SampleBody)>>),
     Resolved(<<TextBlock(<<"txt", "{", "body", "}">>, SampleBody)>>),
     Resolved(<<TextBlock(<<"{", "body", "}">>,
                          [SampleBody EXCEPT !.riskScore = Str(<<"7">>)])>>),
     Resolved(<<TextBlock(<<"{", "body", "}">>,
                          [SampleBody EXCEPT !.changes = Str(<<"x">>)])>>),
     Resolved(<<TextBlock(<<"{", "body", "}">>,
                          [SampleBody EXCEPT
                              !.changes = Arr(<<Change(Absent), Change(Str(<<"A", "a">>))>>),
                              !.riskScore = Num(12)])>>)}

Init ==
    /\ TextIdle /\ ParseIdle /\ ValidateIdle /\ PromptIdle
    /\ ExtraIdle
    /\ \E contents \in ContractLists : contracts = WithContractIds(contents)
    /\ playbookId \in {"p1", "p2"}
    /\ playbookStore \in {{}, {"p1"}}
    /\ batchPc = "start" /\ current = 0 /\ results = <<>> /\ batchError = ""
    /\ callPc = "idle" /\ callRequests = 0 /\ apiReply = Pending
    /\ callMapping = Pending /\ callOutcome = Pending
    /\ requestsIssued = 0 /\ inFlight = 0 /\ replies = <<>>

pureVars == <<textVars, parseVars, validateVars, promptVars, extraVars>>

\* PlaybookNotFound with the bug of a missing null test: the loop is entered
PlaybookNotFound_EntersLoop ==
    /\ batchPc = "start"
    /\ playbookId \notin playbookStore
    /\ batchPc' = "loop"
    /\ current' = 1
    /\ results' = <<>>
    /\ UNCHANGED <<contracts, playbookId, playbookStore, batchError>>
    /\ UNCHANGED <<callVars, apiVars, pureVars>>

\* prisma.playbook.findUnique resolved null: `throw new Error('Playbook not found')`
PlaybookNotFound ==
    /\ batchPc = "start"
    /\ playbookId \notin playbookStore
    /\ batchPc' = "thrown"
    /\ batchError' = "Playbook not found"
    /\ UNCHANGED <<contracts, playbookId, playbookStore, current, results>>
    /\ UNCHANGED <<callVars, apiVars, pureVars>>

\* the playbook was found: `const results = []` and the loop is entered
PlaybookFound ==
    /\ batchPc = "start"
    /\ playbookId \in playbookStore
    /\ batchPc' = "loop"
    /\ current' = 1
    /\ results' = <<>>
    /\ UNCHANGED <<contracts, playbookId, playbookStore, batchError>>
    /\ UNCHANGED <<callVars, apiVars, pureVars>>

\* StartAnalysis without the await of the loop body: the request for the next
\* contract is issued while the previous one is still in flight
StartAnalysis_NoWait ==
    /\ batchPc = "loop"
    /\ current <= Len(contracts)
    /\ callPc \in {"idle", "awaiting"}
    /\ callPc' = "awaiting"
    /\ callRequests' = 1
    /\ apiReply' = Pending
    /\ callMapping' = Pending
    /\ callOutcome' = Pending
    /\ requestsIssued' = requestsIssued + 1
    /\ inFlight' = inFlight + 1
    /\ UNCHANGED <<batchVars, replies, pureVars>>

\* the loop calls analyzeContract for the current contract, which builds the
\* prompts and issues its request: `await this.anthropic.messages.create(...)`
StartAnalysis ==
    /\ batchPc = "loop"
    /\ current <= Len(contracts)
    /\ callPc = "idle"
    /\ callPc' = "awaiting"
    /\ callRequests' = 1
    /\ apiReply' = Pending
    /\ callMapping' = Pending
    /\ callOutcome' = Pending
    /\ requestsIssued' = requestsIssued + 1
    /\ inFlight' = inFlight + 1
    /\ UNCHANGED <<batchVars, replies, pureVars>>

\* the AI API answers the request in flight
ApiAnswers ==
    /\ callPc = "awaiting"
    /\ \E reply \in ApiReplies :
        /\ apiReply' = reply
        /\ replies' = Append(replies, reply)
    /\ inFlight' = inFlight - 1
    /\ callPc' = "received"
    /\ UNCHANGED <<batchVars, callRequests, callMapping, callOutcome, requestsIssued,
                   pureVars>>

\* ParseReply with the bug of a retry: a failed first attempt issues a second
\* request instead of throwing
ParseReply_RetriesOnce ==
    /\ callPc = "received"
    /\ LET failure == replyFailure(apiReply)
           analysis == parseAIResponse(apiReply.content[1].text,
                                       apiReply.content[1].body).analysis
       IN  IF failure # "" /\ callRequests < 2
           THEN /\ callPc' = "awaiting"
                /\ callRequests' = callRequests + 1
                /\ requestsIssued' = requestsIssued + 1
                /\ inFlight' = inFlight + 1
                /\ UNCHANGED <<callOutcome, callMapping, replies>>
           ELSE IF failure # ""
           THEN /\ callOutcome' = Thrown("AI analysis failed: " \o failure)
                /\ callPc' = "thrown"
                /\ UNCHANGED <<callRequests, callMapping, apiVars>>
           ELSE /\ callMapping' =
                        [analysis |-> analysis,
                         changes |-> mappingPromise(analysis.changes,
                                                    contracts[current].content)]
                /\ callPc' = "mapping"
                /\ UNCHANGED <<callRequests, callOutcome, apiVars>>
    /\ UNCHANGED <<batchVars, apiReply, pureVars>>

\* analyzeContract runs from the await of messages.create to its next await:
\* it tests the reply and parses the text, and throws from its catch block,
\* or calls mapChangesToDocument and awaits the promise
ParseReply ==
    /\ callPc = "received"
    /\ LET failure == replyFailure(apiReply)
           analysis == parseAIResponse(apiReply.content[1].text,
                                       apiReply.content[1].body).analysis
       IN  IF failure # ""
           THEN /\ callOutcome' = Thrown("AI analysis failed: " \o failure)
                /\ callPc' = "thrown"
                /\ UNCHANGED callMapping
           ELSE /\ callMapping' =
                        [analysis |-> analysis,
                         changes |-> mappingPromise(analysis.changes,
                                                    contracts[current].content)]
                /\ callPc' = "mapping"
                /\ UNCHANGED callOutcome
    /\ UNCHANGED <<batchVars, callRequests, apiReply, apiVars, pureVars>>

\* analyzeContract runs from the await of mapChangesToDocument to its return
\* or, through its catch block, its throw
CompleteAnalysis ==
    /\ callPc = "mapping"
    /\ callOutcome' = mappedOutcome(callMapping.analysis, callMapping.changes)
    /\ callPc' = callOutcome'.kind
    /\ UNCHANGED <<batchVars, callRequests, apiReply, callMapping, apiVars, pureVars>>

\* the entry the loop pushes for a contract, given what analyzeContract did
resultEntry(contract, outcome) ==
    IF outcome.kind = "returned"
    THEN [contractId |-> contract.id, analysis |-> outcome.analysis]
    ELSE [contractId |-> contract.id, analysis |-> Null, error |-> outcome.message]

\* RecordResult with the bug of pushing no entry for a failed contract
RecordResult_SkipsFailed ==
    /\ batchPc = "loop"
    /\ callPc \in {"returned", "thrown"}
    /\ results' = IF callPc = "thrown" THEN results
                  ELSE Append(results, resultEntry(contracts[current], callOutcome))
    /\ current' = current + 1
    /\ callPc' = "idle"
    /\ UNCHANGED <<contracts, playbookId, playbookStore, batchPc, batchError>>
    /\ UNCHANGED <<callRequests, apiReply, callMapping, callOutcome, apiVars, pureVars>>

\* the try/catch of the loop body pushes the entry; the loop goes on
RecordResult ==
    /\ batchPc = "loop"
    /\ callPc \in {"returned", "thrown"}
    /\ results' = Append(results, resultEntry(contracts[current], callOutcome))
    /\ current' = current + 1
    /\ callPc' = "idle"
    /\ UNCHANGED <<contracts, playbookId, playbookStore, batchPc, batchError>>
    /\ UNCHANGED <<callRequests, apiReply, callMapping, callOutcome, apiVars, pureVars>>

\* the loop is over: `return results`
ReturnResults ==
    /\ batchPc = "loop"
    /\ current > Len(contracts)
    /\ callPc = "idle"
    /\ batchPc' = "returned"
    /\ UNCHANGED <<contracts, playbookId, playbookStore, current, results, batchError>>
    /\ UNCHANGED <<callVars, apiVars, pureVars>>

Next ==
    \/ PlaybookNotFound
    \/ PlaybookFound
    \/ StartAnalysis
    \/ ApiAnswers
    \/ ParseReply
    \/ CompleteAnalysis
    \/ RecordResult
    \/ ReturnResults

Spec == Init /\ [][Next]_vars

(***************************************************************************)
(* Claims about the text locator (checked under SpecText).                 *)
(***************************************************************************)
\* the 0-based indices at which searchText occurs verbatim in fullText
Occurrences ==
    {i \in 0..(Len(fullText) - Len(searchText)) :
        \A k \in 1..Len(searchText) : fullText[i + k] = searchText[k]}

Located == position # Pending /\ searchText # <<>>

\* C2: when the non-empty originalText occurs verbatim in the content,
\* findTextPosition returns start = the index of its first occurrence and
\* end = start + length(originalText), so content[start..end) = originalText.
C2_ExactMatchPosition ==
    (Located /\ Occurrences # {}) =>
        /\ position.start \in Occurrences
        /\ \A i \in Occurrences : position.start <= i
        /\ position.end = position.start + Len(searchText)
        /\ \A k \in 1..Len(searchText) : fullText[position.start + k] = searchText[k]

\* a text located at its first occurrence, which is neither the start of the
\* content nor the only occurrence
C2_Witness ==
    /\ Located
    /\ Len(searchText) = MaxSearchLen
    /\ Cardinality(Occurrences) >= 2
    /\ position.start >= 1

\* the search text is found only after normalization
FuzzyOnly ==
    /\ Located
    /\ Occurrences = {}
    /\ indexOf(normalizeText(fullText), normalizeText(searchText)) # -1

\* C3: when originalText occurs in the content only after lower-casing and
\* white-space normalization, the returned start is the index in the original
\* content at which the matched passage begins: some passage of the original
\* content that starts there normalizes to the normalized originalText.
C3_FuzzyStartBeginsPassage ==
    FuzzyOnly =>
        \E e \in position.start..Len(fullText) :
            normalizeText(substring(fullText, position.start, e)) = normalizeText(searchText)

(***************************************************************************)
(* Claims about the response parser (checked under SpecParse).             *)
(***************************************************************************)
Parsed == parseResult # Pending
ParseAccepted == Parsed /\ parseResult.ok
ParseRejected == Parsed /\ ~parseResult.ok

\* a JavaScript number within the closed range 0..10
InScoreRange(v) == v.t = "num" /\ 0 <= v.n /\ v.n <= 10

\* C1: for every response parseAIResponse accepts, the resulting riskScore and
\* complianceScore both lie in the closed range 0..10.
C1_ScoresWithinRange ==
    ParseAccepted =>
        /\ InScoreRange(parseResult.analysis.riskScore)
        /\ InScoreRange(parseResult.analysis.complianceScore)

\* the text holds a "{" with a "}" somewhere after it
bracesIn(text) ==
    \E i \in 1..Len(text) : \E j \in (i + 1)..Len(text) :
        text[i].k = "{" /\ text[j].k = "}"

\* the text from the first "{" to the last "}"
braced(text) ==
    LET first == CHOOSE i \in 1..Len(text) :
                    text[i].k = "{" /\ \A k \in 1..(i - 1) : text[k].k # "{"
        last == CHOOSE j \in 1..Len(text) :
                    text[j].k = "}" /\ \A k \in (j + 1)..Len(text) : text[k].k # "}"
    IN  SubSeq(text, first, last)

\* a text in braces is one JSON object: `{}`, the members of the body or
\* one of its changes in braces
oneObject(span) ==
    \/ Len(span) = 2
    \/ Len(span) = 3 /\ span[2].k \in {"members", "change"}
    \/ /\ span[2].k = "pre"
       /\ span[Len(span) - 1].k = "post"
       /\ \A k \in 3..(Len(span) - 2) :
             /\ span[k].k \in {"{", "}", "change", "sep"}
             /\ span[k].k \in {"{", "}"} => span[k].i > 0

HasBraces == bracesIn(pieces(responseText, aiBody))

\* the text from the first "{" to the last "}" is one JSON object
IsOneObject ==
    LET text == pieces(responseText, aiBody)
    IN  bracesIn(text) /\ oneObject(braced(text))

\* the members of the analysis the object of the response carries
Carried ==
    LET text == pieces(responseText, aiBody)
    IN  IF bracesIn(text) /\ oneObject(braced(text))
               /\ braced(text)[2].k \in {"members", "pre"}
        THEN aiBody
        ELSE EmptyObject

SummaryMissingOrEmpty == Carried.summary \in {Absent, Null, Str(<<>>)}

\* C6: parseAIResponse accepts a response only if it contains a JSON object
\* with a non-empty summary and a riskScore of type number; a response with
\* no '{...}' text, unparseable JSON, a missing or empty summary or a
\* non-numeric riskScore is rejected with an Error whose message starts with
\* 'Failed to parse AI response: '.
C6_AcceptsOnlyValidated ==
    /\ ParseAccepted =>
        /\ HasBraces /\ IsOneObject
        /\ ~SummaryMissingOrEmpty
        /\ Carried.riskScore.t = "num"
    /\ (Parsed /\ (~HasBraces \/ ~IsOneObject \/ SummaryMissingOrEmpty
                    \/ Carried.riskScore.t # "num")) => ParseRejected
    /\ ParseRejected => StartsWith(parseResult.message, "Failed to parse AI response: ")

\* a response with text around a complete object whose riskScore is a string:
\* it is rejected as an invalid structure
C6_Witness ==
    /\ ParseRejected
    /\ responseText = <<"txt", "{", "body", "}", "txt">>
    /\ aiBody.summary = Str(<<"s">>)
    /\ aiBody.riskScore = Str(<<"7">>)
    /\ parseResult.message = "Failed to parse AI response: Invalid analysis structure"

(***************************************************************************)
(* Claims about the upload validation (checked under SpecValidate).        *)
(***************************************************************************)
Validated == validation # Pending

\* the maximum size: 94371840 unless MAX_FILE_SIZE overrides it
MaximumSize ==
    IF envMaxFileSize = Unset \/ envMaxFileSize = <<>>
    THEN Num(94371840)
    ELSE parseInt(envMaxFileSize)

SizeAtMostMaximum == MaximumSize.t = "num" /\ file.size <= MaximumSize.n

TypeAllowed ==
    \E i \in 1..Len(allowedTypes(envAllowedTypes)) :
        allowedTypes(envAllowedTypes)[i] = file.type

\* C7: validateFile returns valid:true if and only if the file size is at most
\* the maximum size and the file type is in the allowed-type list; a file of
\* exactly the maximum size is accepted, a larger file never is, and when both
\* size and type are bad the size error is the one reported.
C7_ValidIffSizeAndType ==
    Validated =>
        /\ validation.valid <=> (SizeAtMostMaximum /\ TypeAllowed)
        /\ (~SizeAtMostMaximum /\ ~TypeAllowed) =>
            (~validation.valid /\
                validation.error = "File size exceeds maximum allowed size")

(***************************************************************************)
(* Claims about the prompt builder (checked under SpecPrompt).             *)
(***************************************************************************)
Built == prompt # Pending

ActiveIds == {playbookRules[i].id : i \in {k \in 1..Len(playbookRules) : playbookRules[k].isActive}}

RuleOf(id) == CHOOSE r \in {playbookRules[i] : i \in 1..Len(playbookRules)} : r.id = id

SeverityRank == <<"CRITICAL", "HIGH", "MEDIUM", "LOW", "INFO">>

RankOf(sev) == CHOOSE k \in 1..Len(SeverityRank) : SeverityRank[k] = sev

\* C10: the review-rules section holds exactly the rules with isActive true,
\* each once, ordered by severity (CRITICAL, HIGH, MEDIUM, LOW, INFO) and,
\* within equal severity, by ascending orderIndex, numbered consecutively
\* 'Rule 1' .. 'Rule n'; inactive rules never appear.
C10_ActiveRulesSortedNumbered ==
    Built =>
        LET section == prompt.reviewRules
        IN  /\ {section[i].id : i \in 1..Len(section)} = ActiveIds
            /\ Len(section) = Cardinality(ActiveIds)
            /\ \A i \in 1..Len(section) : section[i].number = i
            /\ \A i \in 1..Len(section) : \A j \in (i + 1)..Len(section) :
                LET a == RuleOf(section[i].id)
                    b == RuleOf(section[j].id)
                IN  \/ RankOf(a.severity) < RankOf(b.severity)
                    \/ /\ a.severity = b.severity
                       /\ a.orderIndex <= b.orderIndex

\* a playbook with an inactive rule and active rules that the sort has to
\* move, by severity and by orderIndex
C10_Witness ==
    /\ Built
    /\ Len(playbookRules) = MaxRules
    /\ \E i \in 1..Len(playbookRules) : ~playbookRules[i].isActive
    /\ Len(prompt.reviewRules) >= 2
    /\ prompt.reviewRules[1].id > prompt.reviewRules[2].id

(***************************************************************************)
(* Claims about the analysis service (checked under Spec).                 *)
(***************************************************************************)
CallReplied == callPc \in {"received", "mapping", "returned", "thrown"}
CallDone == callPc \in {"returned", "thrown"}

\* the analyzeContract calls made so far
CallsMade == Len(results) + (IF callPc = "idle" THEN 0 ELSE 1)

\* C4: each call to analyzeContract issues exactly one request to the AI API
\* and then either returns one analysis or throws; it never issues a request
\* after the response of the first one has been received.
C4_OneRequestPerCall ==
    /\ callPc # "idle" => callRequests = 1
    /\ requestsIssued = CallsMade
    /\ CallReplied => (inFlight = 0 /\ Len(replies) = requestsIssued)
    /\ CallDone => callOutcome.kind = callPc

\* a call that failed on parsing the response, after which no second request
\* was issued
C4_Witness ==
    /\ callPc = "thrown"
    /\ apiReply.kind = "resolved"
    /\ StartsWith(callOutcome.message, "AI analysis failed: Failed to parse AI response: ")
    /\ requestsIssued = MaxContracts

ApiFailed == apiReply.kind = "rejected"
NoTextBlock ==
    /\ apiReply.kind = "resolved"
    /\ \/ Len(apiReply.content) = 0
       \/ apiReply.content[1].type # "text"
HasTextBlock ==
    /\ apiReply.kind = "resolved"
    /\ Len(apiReply.content) > 0
    /\ apiReply.content[1].type = "text"
ReplyText == pieces(apiReply.content[1].text, apiReply.content[1].body)
EmptyText == HasTextBlock /\ Len(ReplyText) = 0
ParseFails ==
    /\ HasTextBlock
    /\ Len(ReplyText) > 0
    /\ ~parseAIResponse(apiReply.content[1].text, apiReply.content[1].body).ok

AnalysisFields ==
    {"summary", "riskScore", "complianceScore", "changes", "missingClauses", "risks",
     "keyTerms"}

ThrownWith(underlying) ==
    /\ callPc = "thrown"
    /\ callOutcome = Thrown("AI analysis failed: " \o underlying)

\* C5: analyzeContract never returns a partial result: if the API call fails,
\* the first content block is missing or not of type text, its text is empty,
\* or the response fails parsing/validation, the call throws an Error whose
\* message is 'AI analysis failed: ' followed by the underlying message, and
\* no analysis is returned; an analysis that is returned is complete.
C5_ThrowsOrComplete ==
    CallDone =>
        /\ ApiFailed =>
            ThrownWith(IF apiReply.isError THEN apiReply.message ELSE "Unknown error")
        /\ NoTextBlock => ThrownWith("Invalid response format from AI")
        /\ EmptyText => ThrownWith("Empty response from AI")
        /\ ParseFails =>
            ThrownWith(parseAIResponse(apiReply.content[1].text,
                                       apiReply.content[1].body).message)
        /\ callPc = "thrown" =>
            /\ DOMAIN callOutcome = {"kind", "message"}
            /\ StartsWith(callOutcome.message, "AI analysis failed: ")
        /\ callPc = "returned" =>
            /\ DOMAIN callOutcome.analysis = AnalysisFields
            /\ \A i \in 1..Len(callOutcome.analysis.changes.a) :
                "position" \in DOMAIN callOutcome.analysis.changes.a[i]

\* a call that threw because the text of the first block was empty
C5_Witness ==
    /\ callPc = "thrown"
    /\ EmptyText
    /\ callOutcome.message = "AI analysis failed: Empty response from AI"

PlaybookExists == playbookId \in playbookStore

\* whether the analysis of contract i threw: its reply made analyzeContract fail
AnalysisThrew(i) ==
    \/ replies[i].kind = "rejected"
    \/ replies[i].content = <<>>
    \/ replies[i].content[1].type # "text"
    \/ pieces(replies[i].content[1].text, replies[i].content[1].body) = <<>>
    \/ ~parseAIResponse(replies[i].content[1].text, replies[i].content[1].body).ok
    \/ parseAIResponse(replies[i].content[1].text,
                       replies[i].content[1].body).analysis.changes.t # "arr"

\* C8: when the playbook exists, analyzeMultipleContracts returns exactly one
\* entry per input contract, in input order and carrying that contract's id; a
\* contract whose analysis throws yields an entry with analysis = null and an
\* error message, every other contract an entry with a non-null analysis and
\* no error; a failure on one contract never prevents the later contracts
\* from being analyzed.
C8_OneEntryPerContract ==
    PlaybookExists =>
        /\ batchPc # "thrown"
        /\ batchPc = "loop" => Len(results) = current - 1
        /\ batchPc = "returned" =>
            /\ Len(results) = Len(contracts)
            /\ requestsIssued = Len(contracts)
            /\ Len(replies) = Len(contracts)
        /\ \A i \in 1..Len(results) :
            /\ results[i].contractId = contracts[i].id
            /\ IF AnalysisThrew(i)
               THEN /\ DOMAIN results[i] = {"contractId", "analysis", "error"}
                    /\ results[i].analysis = Null
                    /\ StartsWith(results[i].error, "AI analysis failed: ")
               ELSE /\ DOMAIN results[i] = {"contractId", "analysis"}
                    /\ results[i].analysis # Null
                    /\ DOMAIN results[i].analysis = AnalysisFields

\* a returned batch in which the first contract failed and the last one was
\* analyzed all the same
C8_Witness ==
    /\ batchPc = "returned"
    /\ Len(contracts) = MaxContracts
    /\ Len(results) = MaxContracts
    /\ results[1].analysis = Null
    /\ results[MaxContracts].analysis # Null

\* C9: when the playbook id does not resolve to a playbook,
\* analyzeMultipleContracts throws 'Playbook not found' before analyzing any
\* contract: no AI request is issued and no result list is returned.
C9_PlaybookNotFound ==
    (~PlaybookExists /\ batchPc # "start") =>
        /\ batchPc = "thrown"
        /\ batchError = "Playbook not found"
        /\ requestsIssued = 0
        /\ replies = <<>>
        /\ results = <<>>
        /\ callPc = "idle"

\* the batch threw although contracts were handed in and the database holds
\* another playbook
C9_Witness ==
    /\ batchPc = "thrown"
    /\ Len(contracts) = MaxContracts
    /\ playbookStore # {}
    /\ ~PlaybookExists

(***************************************************************************)
(* DocumentProcessor.htmlToLexical                                         *)
(***************************************************************************)
MaxHtmlLen == 5

\* the characters of the modelled HTML: the two angle brackets and a letter
HtmlChars == {"<", ">", "a"}

\* the index of the first ">" behind the first character, 0 when there is none
firstClose(text) ==
    LET closes == {k \in 2..Len(text) : text[k] = ">"}
    IN  IF closes = {} THEN 0 ELSE CHOOSE k \in closes : \A j \in closes : k <= j

\* replace without the g flag: only the first tag is removed
RECURSIVE stripTags_FirstOnly(_)
stripTags_FirstOnly(text) ==
    IF text = <<>> THEN <<>>
    ELSE IF Head(text) = "<" /\ firstClose(text) # 0
         THEN SubSeq(text, firstClose(text) + 1, Len(text))
         ELSE <<Head(text)>> \o stripTags_FirstOnly(Tail(text))

\* html.replace(/<[^>]*>/g, ''): scanning from the left, a "<" with a ">"
\* behind it is removed together with everything up to the first such ">"
RECURSIVE stripTags(_)
stripTags(text) ==
    IF text = <<>> THEN <<>>
    ELSE IF Head(text) = "<" /\ firstClose(text) # 0
         THEN stripTags(SubSeq(text, firstClose(text) + 1, Len(text)))
         ELSE <<Head(text)>> \o stripTags(Tail(text))

\* the text node and the paragraph of the basic Lexical structure
textNode(text) ==
    [detail |-> 0, format |-> 0, mode |-> "normal", style |-> "", text |-> text,
     type |-> "text", version |-> 1]

paragraphNode(children) ==
    [children |-> children, direction |-> "ltr", format |-> "", indent |-> 0,
     type |-> "paragraph", version |-> 1]

htmlToLexical(source) ==
    [root |->
        [children |-> <<paragraphNode(<<textNode(stripTags(source))>>)>>,
         direction |-> "ltr", format |-> "", indent |-> 0, type |-> "root",
         version |-> 1]]

(***************************************************************************)
(* Specification of the HTML conversion: the HTML is drawn from the        *)
(* bounded texts, the action applies htmlToLexical.                        *)
(***************************************************************************)
InitHtml ==
    /\ ServiceIdle /\ ProcessIdle /\ WordsIdle /\ MapIdle /\ RetryIdle /\ AuthIdle
    /\ html \in SeqsUpTo(HtmlChars, MaxHtmlLen)
    /\ lexicalState = Pending

HtmlToLexical ==
    /\ lexicalState = Pending
    /\ lexicalState' = htmlToLexical(html)
    /\ UNCHANGED html
    /\ UNCHANGED <<serviceVars, processVars, wordsVars, mapVars, retryVars, authVars>>

NextHtml == HtmlToLexical

SpecHtml == InitHtml /\ [][NextHtml]_vars

(***************************************************************************)
(* Claims about the HTML conversion (checked under SpecHtml).              *)
(***************************************************************************)
Converted == lexicalState # Pending

\* character i of the HTML lies in a tag: a "<" at or before it is followed by
\* no ">" before i, and there is a ">" at or behind i
InTag(i) ==
    /\ \E j \in 1..i :
        /\ html[j] = "<"
        /\ \A k \in j..(i - 1) : html[k] # ">"
    /\ \E k \in i..Len(html) : html[k] = ">"

\* the characters of the HTML outside every tag, in order
RECURSIVE OutsideTags(_)
OutsideTags(n) ==
    IF n = 0 THEN <<>>
    ELSE IF InTag(n) THEN OutsideTags(n - 1)
         ELSE Append(OutsideTags(n - 1), html[n])

\* C11: htmlToLexical always produces a root with exactly one paragraph holding
\* exactly one text node, whose text is the HTML with every '<...>' tag
\* removed; the text contains no remaining tag (no '<' followed later by
\* '>'), so stripping the tags of the result again changes nothing.
C11_OneTextNodeWithoutTags ==
    Converted =>
        /\ lexicalState.root.type = "root"
        /\ Len(lexicalState.root.children) = 1
        /\ lexicalState.root.children[1].type = "paragraph"
        /\ Len(lexicalState.root.children[1].children) = 1
        /\ LET node == lexicalState.root.children[1].children[1]
           IN  /\ node.type = "text"
               /\ node.text = OutsideTags(Len(html))
               /\ \A i \in 1..Len(node.text) : \A j \in (i + 1)..Len(node.text) :
                    ~(node.text[i] = "<" /\ node.text[j] = ">")
               /\ stripTags(node.text) = node.text

\* an HTML text with at least two tags whose conversion removes more than two
\* characters and keeps at least one
C11_Witness ==
    /\ Converted
    /\ Cardinality({i \in 1..Len(html) : html[i] = ">"}) >= 2
    /\ Cardinality({i \in 1..Len(html) : html[i] = "<"}) >= 2
    /\ Len(lexicalState.root.children[1].children[1].text) >= 1
    /\ Len(lexicalState.root.children[1].children[1].text) < Len(html) - 2

(***************************************************************************)
(* The users table and the credentials provider's authorize.               *)
(***************************************************************************)
\* bcrypt: a hash is built from a salt and the password it was made of
Salts == {"1", "2"}

bcryptHash(salt, password) == <<"$", salt>> \o password

\* bcrypt.compare(password, hash) resolving: the hash is a hash of that
\* password; a string that has not the form of a hash compares false
bcryptCompare(password, hash) == \E salt \in Salts : hash = bcryptHash(salt, password)

\* bcrypt.compare(password, hash) rejecting: the stored string has the form of
\* a hash but names a salt version the library does not know
bcryptRejects(hash) == Len(hash) >= 2 /\ hash[1] = "$" /\ hash[2] \notin Salts

BadSaltHash == <<"$", "0", "p">>

\* prisma.user.findUnique({where: {email}}): the row with that email, or null
findUniqueUser(table, email) ==
    IF \E u \in table : u.email = email
    THEN CHOOSE u \in table : u.email = email
    ELSE Null

identity(user) ==
    [id |-> user.id, email |-> user.email, name |-> user.name, image |-> user.image]

\* credentials?.email and credentials?.password
optionalMember(creds, member) == IF creds = Absent THEN Absent ELSE creds[member]

\* `!credentials?.email || !credentials?.password`
credentialsMissing(creds) ==
    ~Truthy(optionalMember(creds, "email")) \/ ~Truthy(optionalMember(creds, "password"))

\* `!user || !user.hashedPassword`
cannotCompare(user) == user = Null \/ ~Truthy(user.hashedPassword)

\* authorize from the await of bcrypt.compare to its return
afterCompare(user, isPasswordValid) ==
    IF ~isPasswordValid THEN Null ELSE identity(user)

\* sample e-mail addresses, passwords and stored password columns
Emails == {<<"a", "@", "x">>, <<"A", ".", "b", "@", "y">>}

Passwords == {<<"p">>, <<"q">>}

HashedPasswords ==
    {Null, Str(<<>>), Str(<<"p">>), Str(BadSaltHash)}
        \cup {Str(bcryptHash(salt, password)) : salt \in Salts, password \in Passwords}

UserId(email) == IF email = <<"a", "@", "x">> THEN "u1" ELSE "u2"

UserRows(email) ==
    {[id |-> UserId(email), email |-> Str(email), name |-> name, image |-> Null,
      hashedPassword |-> hashed] :
        name \in {Null, Str(<<"n">>)}, hashed \in HashedPasswords}

\* the users tables: at most one row per e-mail address (email is @unique)
UserTables ==
    {first \cup second :
        first \in {{}} \cup {{row} : row \in UserRows(<<"a", "@", "x">>)},
        second \in {{}} \cup {{row} : row \in {r \in UserRows(<<"A", ".", "b", "@", "y">>) :
                                                r.name = Null /\ r.hashedPassword # Str(<<"p">>)}}}

CredentialMembers(values) == {Absent, Str(<<>>)} \cup {Str(v) : v \in values}

CredentialsValues ==
    {Absent} \cup
    {[email |-> email, password |-> password] :
        email \in CredentialMembers(Emails), password \in CredentialMembers(Passwords)}

EventIdle == signInEvents = <<>> /\ eventPc = <<>>

CallbackIdle ==
    /\ cbPc = <<>> /\ cbArgs = <<>> /\ cbExisting = <<>>
    /\ cbResult = <<>> /\ cbCalls = 0

AuthorizeIdle ==
    /\ credentials = Pending /\ authPc = "idle" /\ authUser = Pending
    /\ authResult = Pending

(***************************************************************************)
(* Specification of authorize: a users table and the submitted credentials *)
(* are drawn from the samples; the steps are the stretches of authorize    *)
(* between two awaits, and other requests change the users table while     *)
(* authorize is suspended.                                                 *)
(***************************************************************************)
InitAuthorize ==
    /\ ServiceIdle /\ ProcessIdle /\ HtmlIdle /\ WordsIdle /\ MapIdle /\ RetryIdle
    /\ EventIdle /\ CallbackIdle
    /\ organizations = {} /\ auditLog = <<>>
    /\ users \in UserTables
    /\ credentials \in CredentialsValues
    /\ authPc = "called"
    /\ authUser = Pending
    /\ authResult = Pending

AuthorizeFrame ==
    /\ UNCHANGED <<organizations, auditLog, credentials, eventVars, callbackVars>>
    /\ UNCHANGED <<serviceVars, processVars, htmlVars, wordsVars, mapVars, retryVars>>

\* authorize runs to its first await: it returns null for missing
\* credentials or issues prisma.user.findUnique
AuthorizeStart ==
    /\ authPc = "called"
    /\ IF credentialsMissing(credentials)
       THEN authResult' = [returned |-> Null] /\ authPc' = "done"
       ELSE authPc' = "finding" /\ UNCHANGED authResult
    /\ UNCHANGED <<users, authUser>>
    /\ AuthorizeFrame

\* findUnique resolves with the row the table holds now; authorize runs to
\* its second await: it returns null or calls bcrypt.compare
AuthorizeFound ==
    /\ authPc = "finding"
    /\ authUser' = findUniqueUser(users, credentials.email)
    /\ IF cannotCompare(authUser')
       THEN authResult' = [returned |-> Null] /\ authPc' = "done"
       ELSE authPc' = "comparing" /\ UNCHANGED authResult
    /\ UNCHANGED users
    /\ AuthorizeFrame

\* findUnique rejects (the database is unreachable or refuses the query):
\* authorize has no catch block and throws
AuthorizeFindFails ==
    /\ authPc = "finding"
    /\ authResult' = [thrown |-> "Can't reach database server"]
    /\ authPc' = "thrown"
    /\ UNCHANGED <<users, authUser>>
    /\ AuthorizeFrame

\* bcrypt.compare resolves; authorize runs to its return
AuthorizeCompared ==
    /\ authPc = "comparing"
    /\ ~bcryptRejects(authUser.hashedPassword.s)
    /\ authResult' =
            [returned |->
                afterCompare(authUser,
                             bcryptCompare(credentials.password.s,
                                           authUser.hashedPassword.s))]
    /\ authPc' = "done"
    /\ UNCHANGED <<users, authUser>>
    /\ AuthorizeFrame

\* bcrypt.compare rejects: authorize has no catch block and throws
AuthorizeCompareFails ==
    /\ authPc = "comparing"
    /\ bcryptRejects(authUser.hashedPassword.s)
    /\ authResult' = [thrown |-> "Invalid salt version: $0"]
    /\ authPc' = "thrown"
    /\ UNCHANGED <<users, authUser>>
    /\ AuthorizeFrame

\* another request deletes a user or stores another password while authorize
\* is suspended
UsersChange ==
    /\ authPc \in {"finding", "comparing"}
    /\ \E user \in users :
        \/ users' = users \ {user}
        \/ \E hashed \in HashedPasswords \ {user.hashedPassword} :
                users' = (users \ {user}) \cup {[user EXCEPT !.hashedPassword = hashed]}
    /\ UNCHANGED <<authPc, authUser, authResult>>
    /\ AuthorizeFrame

NextAuthorize ==
    \/ AuthorizeStart
    \/ AuthorizeFound
    \/ AuthorizeFindFails
    \/ AuthorizeCompared
    \/ AuthorizeCompareFails
    \/ UsersChange

SpecAuthorize == InitAuthorize /\ [][NextAuthorize]_vars

(***************************************************************************)
(* Claims about authorize (checked under SpecAuthorize).                   *)
(***************************************************************************)
\* authorize returned
Authorized == authPc = "done"

\* authorize returned or threw
AuthorizeEnded == authPc \in {"done", "thrown"}

Supplied(member) ==
    /\ credentials # Absent
    /\ credentials[member] # Absent
    /\ credentials[member] # Str(<<>>)

\* the submitted credentials are good for the user findUnique resolved with
GoodCredentials ==
    /\ Supplied("email") /\ Supplied("password")
    /\ authUser \notin {Pending, Null}
    /\ authUser.email = credentials.email
    /\ authUser.hashedPassword \notin {Null, Str(<<>>)}
    /\ bcryptCompare(credentials.password.s, authUser.hashedPassword.s)

\* findUnique resolves with a user the table holds under the submitted
\* e-mail address, or with null when it holds none
ReadsUserOfTable ==
    authUser' # authUser =>
        IF \E user \in users : user.email = credentials.email
        THEN authUser' \in users /\ authUser'.email = credentials.email
        ELSE authUser' = Null

\* the first half of C12: what authorize returns is the identity of the user
\* findUnique resolved with when the credentials are good for that user, and
\* null otherwise
ReturnsIdentityOnlyForGoodCredentials ==
    Authorized =>
        IF GoodCredentials
        THEN authResult.returned =
                [id |-> authUser.id, email |-> authUser.email,
                 name |-> authUser.name, image |-> authUser.image]
        ELSE authResult.returned = Null

\* C12: authorize returns a user identity (id, email, name, image) only when
\* both email and password were supplied, a user with that email exists, that
\* user has a hashedPassword, and bcrypt.compare of the supplied password
\* against it succeeded; in every other case it returns null. A call that
\* ends has therefore returned, the identity or null.
C12_IdentityOnlyForGoodCredentials ==
    /\ [](AuthorizeEnded => Authorized)
    /\ []ReturnsIdentityOnlyForGoodCredentials
    /\ [][ReadsUserOfTable]_vars

(***************************************************************************)
(* events.signIn: the audit log of sign-ins.                               *)
(***************************************************************************)
MaxEvents == 2

\* the arguments NextAuth hands to the event: the user, the account (absent
\* or with its provider) and the optional isNewUser flag
EventUsers == {[id |-> "u1"], [id |-> "u2"]}

Accounts == {Absent, [provider |-> "google"], [provider |-> "credentials"]}

NewUserFlags == {Absent, Bool(TRUE), Bool(FALSE)}

\* account?.provider
providerOf(account) == IF account = Absent THEN Absent ELSE Str(account.provider)

\* the data of prisma.auditLog.create
signInRecord(user, account, isNewUser) ==
    [action |-> "user_signin", entityType |-> "user", entityId |-> user.id,
     userId |-> user.id,
     metadata |-> [provider |-> providerOf(account), isNewUser |-> isNewUser]]

AuditFrame ==
    /\ UNCHANGED <<users, organizations, authorizeVars, callbackVars>>
    /\ UNCHANGED <<serviceVars, processVars, htmlVars, wordsVars, mapVars, retryVars>>

\* one sign-in event is delivered: the handler calls prisma.auditLog.create
\* and awaits it
SignInEvent ==
    /\ Len(signInEvents) < MaxEvents
    /\ \E user \in EventUsers, account \in Accounts, isNewUser \in NewUserFlags :
        signInEvents' =
            Append(signInEvents,
                   [user |-> user, account |-> account, isNewUser |-> isNewUser])
    /\ eventPc' = Append(eventPc, "awaiting")
    /\ UNCHANGED auditLog
    /\ AuditFrame

\* the database writes the row of a create in flight; the handler of that
\* event resolves
AuditLogCreated ==
    /\ \E i \in 1..Len(signInEvents) :
        /\ eventPc[i] = "awaiting"
        /\ auditLog' =
                Append(auditLog,
                       signInRecord(signInEvents[i].user, signInEvents[i].account,
                                    signInEvents[i].isNewUser))
        /\ eventPc' = [eventPc EXCEPT ![i] = "resolved"]
    /\ UNCHANGED signInEvents
    /\ AuditFrame

\* the database rejects a create in flight: no row is written and the
\* handler of that event, which has no catch block, rejects
AuditLogCreateFails ==
    /\ \E i \in 1..Len(signInEvents) :
        /\ eventPc[i] = "awaiting"
        /\ eventPc' = [eventPc EXCEPT ![i] = "rejected"]
    /\ UNCHANGED <<signInEvents, auditLog>>
    /\ AuditFrame

InitAudit ==
    /\ ServiceIdle /\ ProcessIdle /\ HtmlIdle /\ WordsIdle /\ MapIdle /\ RetryIdle
    /\ AuthorizeIdle /\ CallbackIdle
    /\ users = {} /\ organizations = {}
    /\ auditLog = <<>>
    /\ signInEvents = <<>>
    /\ eventPc = <<>>

NextAudit ==
    \/ SignInEvent
    \/ AuditLogCreated
    \/ AuditLogCreateFails

SpecAudit == InitAudit /\ [][NextAudit]_vars

(***************************************************************************)
(* Claims about the audit log (checked under SpecAudit).                   *)
(***************************************************************************)
SignInRecordsOf(id) ==
    {i \in 1..Len(auditLog) :
        auditLog[i].action = "user_signin" /\ auditLog[i].userId = id}

SignInEventsOf(id) == {i \in 1..Len(signInEvents) : signInEvents[i].user.id = id}

\* no handler of a sign-in event is waiting for the database
HandlersSettled == \A i \in 1..Len(eventPc) : eventPc[i] # "awaiting"

\* the audit-log record of a sign-in event, as the claim describes it
RecordOf(event) ==
    [action |-> "user_signin", entityType |-> "user", entityId |-> event.user.id,
     userId |-> event.user.id,
     metadata |->
        [provider |-> (IF event.account = Absent THEN Absent
                       ELSE Str(event.account.provider)),
         isNewUser |-> event.isNewUser]]

\* C13: every sign-in event writes exactly one audit-log record with action
\* 'user_signin', entityType 'user' and entityId = userId = the id of the user
\* who signed in, with the provider and the isNewUser flag in its metadata;
\* the number of 'user_signin' records of a user equals the number of that
\* user's sign-in events.  (Stated of the states in which every handler has
\* settled.)
C13_OneAuditRecordPerSignIn ==
    HandlersSettled =>
        /\ \A i \in 1..Len(signInEvents) :
            Cardinality({j \in 1..Len(auditLog) : auditLog[j] = RecordOf(signInEvents[i])})
                = Cardinality({k \in 1..Len(signInEvents) :
                                    signInEvents[k] = signInEvents[i]})
        /\ \A user \in EventUsers :
            Cardinality(SignInRecordsOf(user.id)) = Cardinality(SignInEventsOf(user.id))

(***************************************************************************)
(* callbacks.signIn: the personal organization of a Google user.           *)
(***************************************************************************)
MaxSignIns == 2

\* the characters the slug keeps: [a-z0-9]
LowerAlnum ==
    {"a", "b", "c", "d", "e", "f", "g", "h", "i", "j", "k", "l", "m", "n", "o",
     "p", "q", "r", "s", "t", "u", "v", "w", "x", "y", "z",
     "0", "1", "2", "3", "4", "5", "6", "7", "8", "9"}

\* email.split('@')[0]: the part before the first "@"
RECURSIVE beforeAt(_)
beforeAt(email) ==
    IF email = <<>> \/ Head(email) = "@" THEN <<>>
    ELSE <<Head(email)>> \o beforeAt(Tail(email))

\* .replace(/[^a-z0-9]/g, '-')
replaceNonAlnum(text) ==
    [i \in 1..Len(text) |-> IF text[i] \in LowerAlnum THEN text[i] ELSE "-"]

orgSlug(email) == replaceNonAlnum(toLowerCase(beforeAt(email)))

\* `${user.name || user.email}'s Organization`
orgName(user) ==
    OrElse(user.name, user.email).s
        \o <<"'", "s", " ", "O", "r", "g", "a", "n", "i", "z", "a", "t", "i", "o", "n">>

\* the organizations a user is a member of
organizationsOf(orgs, userId) == {o \in orgs : \E m \in o.members : m.userId = userId}

\* prisma.user.findUnique({where: {email}, include: {organizations: true}})
findUniqueWithOrganizations(table, orgs, email) ==
    IF findUniqueUser(table, email) = Null THEN Null
    ELSE LET row == findUniqueUser(table, email)
         IN  [id |-> row.id, email |-> row.email, name |-> row.name,
              organizations |-> organizationsOf(orgs, row.id)]

\* account?.provider === 'google' && user.email
isGoogleWithEmail(args) ==
    /\ args.account # Absent
    /\ args.account.provider = "google"
    /\ Truthy(args.user.email)

\* existingUser && existingUser.organizations.length === 0
needsOrganization(existing) == existing # Null /\ existing.organizations = {}

\* the row of prisma.organization.create with its nested member
newOrganization(args, existing) ==
    [slug |-> orgSlug(args.user.email.s), name |-> orgName(args.user),
     members |-> {[userId |-> existing.id, role |-> "OWNER"]}]

\* slug is @unique: a second row with the slug is refused
slugTaken(orgs, slug) == \E o \in orgs : o.slug = slug

\* the users that sign in: two of them share the local part of the address
SignInRows ==
    {[id |-> "u1", email |-> Str(<<"a", "@", "x">>), name |-> Str(<<"n">>),
      image |-> Null, hashedPassword |-> Null],
     [id |-> "u2", email |-> Str(<<"A", ".", "b", "@", "y">>), name |-> Null,
      image |-> Null, hashedPassword |-> Null],
     [id |-> "u3", email |-> Str(<<"a", "@", "y">>), name |-> Null,
      image |-> Null, hashedPassword |-> Null]}

\* the user NextAuth hands to the callback: a stored user or one without e-mail
SignInUsers ==
    {[id |-> row.id, email |-> row.email, name |-> row.name] : row \in SignInRows}
        \cup {[id |-> "u4", email |-> Null, name |-> Null]}

\* organizations that exist before the sign-ins: none, or a team u1 belongs to
TeamOrganization ==
    [slug |-> <<"t">>, name |-> <<"T">>, members |-> {[userId |-> "u1", role |-> "MEMBER"]}]

InitOrg ==
    /\ ServiceIdle /\ ProcessIdle /\ HtmlIdle /\ WordsIdle /\ MapIdle /\ RetryIdle
    /\ AuthorizeIdle /\ EventIdle /\ CallbackIdle
    /\ auditLog = <<>>
    /\ users \in SUBSET SignInRows
    /\ organizations \in {{}, {TeamOrganization}}

CallbackFrame ==
    /\ UNCHANGED <<users, auditLog, authorizeVars, eventVars>>
    /\ UNCHANGED <<serviceVars, processVars, htmlVars, wordsVars, mapVars, retryVars>>

\* the callback is entered with another provider or a user without e-mail:
\* it returns true
SignInOther ==
    /\ cbCalls < MaxSignIns
    /\ \E user \in SignInUsers, account \in Accounts :
        /\ ~isGoogleWithEmail([user |-> user, account |-> account])
        /\ cbArgs' = Append(cbArgs, [user |-> user, account |-> account])
    /\ cbExisting' = Append(cbExisting, Pending)
    /\ cbResult' = Append(cbResult, [returned |-> TRUE])
    /\ cbPc' = Append(cbPc, "done")
    /\ cbCalls' = cbCalls + 1
    /\ UNCHANGED organizations
    /\ CallbackFrame

\* the callback is entered with a Google sign-in and an e-mail address: it
\* calls prisma.user.findUnique and awaits it
SignInLookup ==
    /\ cbCalls < MaxSignIns
    /\ \E user \in SignInUsers, account \in Accounts :
        /\ isGoogleWithEmail([user |-> user, account |-> account])
        /\ cbArgs' = Append(cbArgs, [user |-> user, account |-> account])
    /\ cbExisting' = Append(cbExisting, Pending)
    /\ cbResult' = Append(cbResult, Pending)
    /\ cbPc' = Append(cbPc, "finding")
    /\ cbCalls' = cbCalls + 1
    /\ UNCHANGED organizations
    /\ CallbackFrame

\* findUnique resolves with no stored user, or with one that has an
\* organization now: nothing is created and the callback returns true
SignInKeeps ==
    /\ \E call \in 1..cbCalls :
        /\ cbPc[call] = "finding"
        /\ LET existing == findUniqueWithOrganizations(users, organizations,
                                                       cbArgs[call].user.email)
           IN  /\ ~needsOrganization(existing)
               /\ cbExisting' = [cbExisting EXCEPT ![call] = existing]
        /\ cbResult' = [cbResult EXCEPT ![call] = [returned |-> TRUE]]
        /\ cbPc' = [cbPc EXCEPT ![call] = "done"]
    /\ UNCHANGED <<organizations, cbArgs, cbCalls>>
    /\ CallbackFrame

\* findUnique resolves with a stored user that has no organization now: the
\* callback calls prisma.organization.create and awaits it
SignInNeedsOrganization ==
    /\ \E call \in 1..cbCalls :
        /\ cbPc[call] = "finding"
        /\ LET existing == findUniqueWithOrganizations(users, organizations,
                                                       cbArgs[call].user.email)
           IN  /\ needsOrganization(existing)
               /\ cbExisting' = [cbExisting EXCEPT ![call] = existing]
        /\ cbPc' = [cbPc EXCEPT ![call] = "creating"]
    /\ UNCHANGED <<organizations, cbArgs, cbResult, cbCalls>>
    /\ CallbackFrame

\* the database creates the personal organization; the callback returns true
SignInCreates ==
    /\ \E call \in 1..cbCalls :
        /\ cbPc[call] = "creating"
        /\ ~slugTaken(organizations, orgSlug(cbArgs[call].user.email.s))
        /\ organizations' =
                organizations \cup {newOrganization(cbArgs[call], cbExisting[call])}
        /\ cbResult' = [cbResult EXCEPT ![call] = [returned |-> TRUE]]
        /\ cbPc' = [cbPc EXCEPT ![call] = "done"]
    /\ UNCHANGED <<cbArgs, cbExisting, cbCalls>>
    /\ CallbackFrame

\* the database refuses the create, the slug being taken: the callback throws
SignInCreateFails ==
    /\ \E call \in 1..cbCalls :
        /\ cbPc[call] = "creating"
        /\ slugTaken(organizations, orgSlug(cbArgs[call].user.email.s))
        /\ cbResult' =
                [cbResult EXCEPT
                    ![call] = [thrown |-> "Unique constraint failed on the fields: slug"]]
        /\ cbPc' = [cbPc EXCEPT ![call] = "done"]
    /\ UNCHANGED <<organizations, cbArgs, cbExisting, cbCalls>>
    /\ CallbackFrame

NextOrg ==
    \/ SignInOther
    \/ SignInLookup
    \/ SignInKeeps
    \/ SignInNeedsOrganization
    \/ SignInCreates
    \/ SignInCreateFails

SpecOrg == InitOrg /\ [][NextOrg]_vars

(***************************************************************************)
(* Claims about the signIn callback (checked under SpecOrg).               *)
(***************************************************************************)
CallbackDone(call) == cbPc[call] = "done"

\* the finished sign-in was a Google sign-in of a stored user with an e-mail
\* address who belonged to no organization when the callback looked
FirstGoogleSignIn(call) ==
    /\ CallbackDone(call)
    /\ isGoogleWithEmail(cbArgs[call])
    /\ cbExisting[call] # Pending /\ cbExisting[call] # Null
    /\ cbExisting[call].organizations = {}

OwnsOrganization(userId) ==
    \E o \in organizations : [userId |-> userId, role |-> "OWNER"] \in o.members

\* a step that adds an organization belongs to a Google sign-in of a user
\* with an e-mail address and no organization
CreatesOnlyForFirstGoogleSignIn ==
    organizations' # organizations =>
        \E call \in 1..cbCalls :
            /\ cbPc[call] = "creating" /\ cbPc'[call] = "done"
            /\ isGoogleWithEmail(cbArgs[call])
            /\ organizationsOf(organizations, cbExisting[call].id) = {}
            /\ organizations' \ organizations =
                    {newOrganization(cbArgs[call], cbExisting[call])}

\* C14: after a Google sign-in by a user who has an email and belongs to no
\* organization, a personal organization exists with that user as a member
\* with role OWNER; the signIn callback creates no organization for a user who
\* already belongs to one or for a non-Google provider, and it always returns
\* true.
C14_PersonalOrganizationOnFirstSignIn ==
    /\ [](\A call \in 1..cbCalls :
            FirstGoogleSignIn(call) => OwnsOrganization(cbExisting[call].id))
    /\ [](\A call \in 1..cbCalls :
            CallbackDone(call) => cbResult[call] = [returned |-> TRUE])
    /\ [][CreatesOnlyForFirstGoogleSignIn]_vars

(***************************************************************************)
(* The query client's retry policy.                                        *)
(***************************************************************************)
\* err?.status
statusOf(error) == IF error \in {Absent, Null} THEN Absent ELSE error.status

\* a policy that looks at the failure count only
retry_IgnoresStatus(count, error) == count < 3

\* queries.retry
retry(count, error) ==
    LET status == statusOf(error)
    IN  IF /\ Truthy(status)
           /\ status.n >= 400 /\ status.n < 500
           /\ status.n # 408 /\ status.n # 429
        THEN FALSE
        ELSE count < 3

\* the retryer's decision: queries ask the function, mutations have retry: false
shouldRetry(kind, count, error) == IF kind = "mutation" THEN FALSE ELSE retry(count, error)

\* the failures of a fetch: no error value, an error without status, and
\* errors with a status
Statuses == {0, 400, 404, 408, 429, 499, 500, 503}

FetchErrors == {Absent, Null, [status |-> Absent]} \cup {[status |-> Num(n)] : n \in Statuses}

InitRetry ==
    /\ ServiceIdle /\ ProcessIdle /\ HtmlIdle /\ WordsIdle /\ MapIdle /\ AuthIdle
    /\ opKind \in {"query", "mutation"}
    /\ fetchPc = "idle"
    /\ failureCount = 0
    /\ retried = <<>>

RetryFrame == UNCHANGED <<serviceVars, processVars, htmlVars, wordsVars, mapVars, authVars>>

\* the query or mutation function is called for the first time
StartFetch ==
    /\ fetchPc = "idle"
    /\ fetchPc' = "fetching"
    /\ UNCHANGED <<opKind, failureCount, retried>>
    /\ RetryFrame

FetchSucceeds ==
    /\ fetchPc = "fetching"
    /\ fetchPc' = "success"
    /\ UNCHANGED <<opKind, failureCount, retried>>
    /\ RetryFrame

\* the call fails and the policy asks for another attempt
FetchFailsAndRetries ==
    /\ fetchPc = "fetching"
    /\ \E error \in FetchErrors :
        /\ shouldRetry(opKind, failureCount, error)
        /\ retried' = Append(retried, error)
    /\ failureCount' = failureCount + 1
    /\ UNCHANGED <<opKind, fetchPc>>
    /\ RetryFrame

\* the call fails and the policy refuses: the failure is final
FetchFailsForGood ==
    /\ fetchPc = "fetching"
    /\ \E error \in FetchErrors : ~shouldRetry(opKind, failureCount, error)
    /\ fetchPc' = "error"
    /\ failureCount' = failureCount + 1
    /\ UNCHANGED <<opKind, retried>>
    /\ RetryFrame

NextRetry ==
    \/ StartFetch
    \/ FetchSucceeds
    \/ FetchFailsAndRetries
    \/ FetchFailsForGood

SpecRetry == InitRetry /\ [][NextRetry]_vars

(***************************************************************************)
(* Claims about the retry policy (checked under SpecRetry).                *)
(***************************************************************************)
\* the failure carries a 4xx status other than 408 and 429
ClientError(error) ==
    /\ error \notin {Absent, Null}
    /\ error.status # Absent
    /\ error.status.n \in 400..499 \ {408, 429}

\* C15: the query retry policy never retries a failure whose status is a 4xx
\* other than 408 and 429, and retries every other failure only while
\* failureCount < 3, so a persistently failing query stops being retried after
\* at most 3 retries; mutations are never retried.
C15_RetryPolicy ==
    /\ \A i \in 1..Len(retried) : ~ClientError(retried[i])
    /\ Len(retried) <= 3
    /\ fetchPc = "fetching" => failureCount = Len(retried)
    /\ (fetchPc = "fetching" /\ opKind = "query" /\ failureCount < 3) =>
            \A error \in FetchErrors : ~ClientError(error) => retry(failureCount, error)
    /\ opKind = "mutation" => retried = <<>>

\* a query that failed persistently: retried three times, on a 408, a 500 and
\* a failure without status, and then given up
C15_Witness ==
    /\ opKind = "query"
    /\ fetchPc = "error"
    /\ Len(retried) = 3
    /\ retried[1] = [status |-> Num(408)]
    /\ retried[2] = [status |-> Num(500)]
    /\ retried[3] = Absent

(***************************************************************************)
(* DocumentProcessor.countWords and estimatePageCount                      *)
(***************************************************************************)
MaxWords == 251

MaxTextLen == 4

wordsPerPage == 250

\* the indices 1..n in order
indices(n) == [i \in 1..n |-> i]

\* the first and the last indices of the runs of whitespace, in order
spaceRunStarts(text) ==
    SelectSeq(indices(Len(text)),
              LAMBDA i : IsSpace(text[i]) /\ (i = 1 \/ ~IsSpace(text[i - 1])))

spaceRunEnds(text) ==
    SelectSeq(indices(Len(text)),
              LAMBDA i : IsSpace(text[i]) /\ (i = Len(text) \/ ~IsSpace(text[i + 1])))

\* text.split(/\s+/): the pieces before, between and behind the runs of
\* whitespace; a text without whitespace, the empty one too, is one piece
splitSpaces(text) ==
    LET starts == spaceRunStarts(text)
        ends == spaceRunEnds(text)
    IN  [k \in 1..(Len(starts) + 1) |->
            SubSeq(text,
                   IF k = 1 THEN 1 ELSE ends[k - 1] + 1,
                   IF k <= Len(starts) THEN starts[k] - 1 ELSE Len(text))]

nonEmpty(word) == Len(word) > 0

\* countWords without the filter of empty pieces
countWords_NoFilter(text) == Len(splitSpaces(trim(text)))

countWords(text) == Len(SelectSeq(splitSpaces(trim(text)), nonEmpty))

\* Math.ceil(n / d) for n >= 0 and d > 0
mathCeilDiv(n, d) == IF n % d = 0 THEN n \div d ELSE (n \div d) + 1

estimatePageCount(text) == mathCeilDiv(countWords(text), wordsPerPage)

\* a long text of count one-letter words, separated by blanks and line ends
longText(count) ==
    [i \in 1..(2 * count) |->
        IF i % 2 = 1 THEN "a" ELSE IF i % 4 = 0 THEN "\n" ELSE " "]

\* the extracted texts: every short text, and long texts around a page break
DocTexts ==
    SeqsUpTo(Alphabet, MaxTextLen)
        \cup {longText(count) : count \in (MaxWords - 2)..MaxWords}

InitWords ==
    /\ ServiceIdle /\ ProcessIdle /\ HtmlIdle /\ MapIdle /\ RetryIdle /\ AuthIdle
    /\ docText \in DocTexts
    /\ docMetrics = Pending

\* the metrics processWordDocument computes from the extracted text
ComputeMetrics ==
    /\ docMetrics = Pending
    /\ docMetrics' =
            [wordCount |-> countWords(docText), pageCount |-> estimatePageCount(docText)]
    /\ UNCHANGED docText
    /\ UNCHANGED <<serviceVars, processVars, htmlVars, mapVars, retryVars, authVars>>

NextWords == ComputeMetrics

SpecWords == InitWords /\ [][NextWords]_vars

(***************************************************************************)
(* Claims about the document metrics (checked under SpecWords).            *)
(***************************************************************************)
Measured == docMetrics # Pending

\* the first characters of the maximal runs of non-whitespace characters
RunStarts ==
    {i \in 1..Len(docText) :
        /\ ~IsSpace(docText[i])
        /\ i = 1 \/ IsSpace(docText[i - 1])}

\* C16: for every text, wordCount equals the number of maximal runs of
\* non-whitespace characters (0 for an empty or whitespace-only text), and
\* pageCount equals ceil(wordCount / 250): 0 words give 0 pages, 1..250 words
\* give 1 page and 251 words give 2 pages.
C16_WordAndPageCount ==
    Measured =>
        /\ docMetrics.wordCount = Cardinality(RunStarts)
        /\ (\A i \in 1..Len(docText) : IsSpace(docText[i])) => docMetrics.wordCount = 0
        /\ docMetrics.pageCount * 250 >= docMetrics.wordCount
        /\ (docMetrics.pageCount - 1) * 250 < docMetrics.wordCount
        /\ docMetrics.wordCount = 0 => docMetrics.pageCount = 0
        /\ docMetrics.wordCount \in 1..250 => docMetrics.pageCount = 1
        /\ docMetrics.wordCount = 251 => docMetrics.pageCount = 2

\* a text of 251 words on two pages
C16_Witness ==
    /\ Measured
    /\ docMetrics.wordCount = 251
    /\ docMetrics.pageCount = 2

\* a text of exactly 250 words on one page
C16_WitnessFullPage ==
    /\ Measured
    /\ docMetrics.wordCount = 250
    /\ docMetrics.pageCount = 1

(***************************************************************************)
(* Claims about the order of the requests of a batch (checked under Spec). *)
(***************************************************************************)
\* an analyzeContract call of the loop has been started and its entry is not
\* pushed yet
CallOpen == callPc # "idle"

\* C17: analyzeMultipleContracts processes its contracts strictly sequentially
\* in input order: at most one AI request is in flight at any time, and the
\* request for contract i+1 is issued only after contract i has produced its
\* result entry (success or error).
C17_SequentialRequests ==
    /\ inFlight \in {0, 1}
    /\ inFlight = 1 => callPc = "awaiting"
    /\ requestsIssued = Len(results) + (IF CallOpen THEN 1 ELSE 0)
    /\ CallOpen => current = Len(results) + 1
    /\ \A i \in 1..Len(results) : results[i].contractId = contracts[i].id

\* the request for the second contract is in flight, the first contract has
\* its entry, an error entry
C17_Witness ==
    /\ requestsIssued = 2
    /\ inFlight = 1
    /\ Len(results) = 1
    /\ results[1].analysis = Null
    /\ current = 2

(***************************************************************************)
(* Specification of the mapping of the AI's changes onto the document: the *)
(* changes and the contract content are drawn from samples, the action     *)
(* applies mapChangesToDocument.                                           *)
(***************************************************************************)
MaxChanges == 2

\* what the AI reports as originalText: missing, null, empty, found verbatim,
\* found after normalization, white space, not found
OriginalTexts ==
    {Absent, Null, Str(<<>>), Str(<<"a">>), Str(<<"A", "a">>), Str(<<" ">>),
     Str(<<"a", " ", "a">>)}

\* the i-th reported change: its rule tells the changes apart
ReportedChange(original, i) ==
    [type |-> "REPLACEMENT", originalText |-> original, reason |-> <<"r">>, ruleId |-> i]

ReportedChanges ==
    UNION {{[i \in 1..n |-> ReportedChange(originals[i], i)] :
                originals \in [1..n -> OriginalTexts]} : n \in 0..MaxChanges}

MappedContents == SeqsUpTo(Alphabet, MaxSearchLen) \cup ContractContents

InitMap ==
    /\ ServiceIdle /\ ProcessIdle /\ HtmlIdle /\ WordsIdle /\ RetryIdle /\ AuthIdle
    /\ aiChanges \in ReportedChanges
    /\ contractContent \in MappedContents
    /\ enhancedChanges = Pending

MapChangesToDocument ==
    /\ enhancedChanges = Pending
    /\ enhancedChanges' = [changes |-> mapChangesToDocument(aiChanges, contractContent)]
    /\ UNCHANGED <<aiChanges, contractContent>>
    /\ UNCHANGED <<serviceVars, processVars, htmlVars, wordsVars, retryVars, authVars>>

NextMap == MapChangesToDocument

SpecMap == InitMap /\ [][NextMap]_vars

(***************************************************************************)
(* Claims about the mapping of changes (checked under SpecMap).            *)
(***************************************************************************)
Mapped == enhancedChanges # Pending

\* text occurs at some place of content
OccursIn(text, content) ==
    \E i \in 0..(Len(content) - Len(text)) :
        \A k \in 1..Len(text) : content[i + k] = text[k]

\* the reported originalText is empty or missing, or it occurs in the content
\* neither verbatim nor after normalization of both
Unlocatable(original) ==
    \/ original \in {Absent, Null, Str(<<>>)}
    \/ /\ ~OccursIn(original.s, contractContent)
       /\ ~OccursIn(normalizeText(original.s), normalizeText(contractContent))

\* C18: mapChangesToDocument returns exactly as many changes as the AI
\* supplied, in the same order, each with all its original fields unchanged and
\* only a position added; a change whose originalText is empty, missing, or
\* cannot be located by exact or fuzzy matching is kept (not dropped) with
\* position {start: 0, end: 0} and no line or column.
C18_ChangesKeptWithPosition ==
    Mapped =>
        /\ Len(enhancedChanges.changes) = Len(aiChanges)
        /\ \A i \in 1..Len(aiChanges) :
            LET before == aiChanges[i]
                after == IF i <= Len(enhancedChanges.changes)
                         THEN enhancedChanges.changes[i]
                         ELSE withPosition(before, Pending)
            IN  /\ DOMAIN after = DOMAIN before \cup {"position"}
                /\ \A f \in DOMAIN before : after[f] = before[f]
                /\ Unlocatable(before.originalText) =>
                        /\ DOMAIN after.position = {"start", "end"}
                        /\ after.position.start = 0
                        /\ after.position.end = 0

\* two changes: the first has a text that is not in the content and is kept
\* with the empty position, the second is located behind the start
C18_Witness ==
    /\ Mapped
    /\ Len(aiChanges) = 2
    /\ aiChanges[1].originalText = Str(<<"a", " ", "a">>)
    /\ Unlocatable(aiChanges[1].originalText)
    /\ enhancedChanges.changes[1].position = [start |-> 0, end |-> 0]
    /\ enhancedChanges.changes[2].position.start >= 1

(***************************************************************************)
(* Claims about the range and the line and column of a position (checked   *)
(* under SpecText).                                                        *)
(***************************************************************************)
Positioned == position # Pending

\* C19: every position returned by findTextPosition, whether located by exact
\* or by fuzzy matching, satisfies 0 <= start <= end <= length(content), so
\* the range [start, end) is always a valid slice of the document.
C19_PositionWithinContent ==
    Positioned =>
        /\ 0 <= position.start
        /\ position.start <= position.end
        /\ position.end <= Len(fullText)

\* the position carries a line and a column: the search text was located
HasLine == Positioned /\ "line" \in DOMAIN position

\* the 0-based indices of the newline characters before start
NewlinesBefore == {i \in 0..(position.start - 1) : fullText[i + 1] = "\n"}

\* the 0-based index behind the last newline before start, 0 when there is none
LineBegin ==
    IF NewlinesBefore = {} THEN 0
    ELSE 1 + CHOOSE i \in NewlinesBefore : \A j \in NewlinesBefore : j <= i

\* C20: for every located change, position.line equals 1 plus the number of
\* newline characters in the content before start, and position.column equals
\* 1 plus the number of characters between the last newline before start (or
\* the beginning of the content) and start; both are at least 1.
C20_LineAndColumn ==
    HasLine =>
        /\ position.line = 1 + Cardinality(NewlinesBefore)
        /\ position.column = 1 + (position.start - LineBegin)
        /\ position.line >= 1
        /\ position.column >= 1

\* a text located on the second line or later, behind the first column
C20_Witness ==
    /\ HasLine
    /\ position.line >= 2
    /\ position.column >= 2
    /\ Occurrences # {}

(***************************************************************************)
(* Claims about the defaults of the response parser (checked under         *)
(* SpecParse).                                                             *)
(***************************************************************************)
\* the complianceScore the response carries
ReportedCompliance == Carried.complianceScore

\* C21: parseAIResponse substitutes the default complianceScore 5 only when
\* the AI response carries no complianceScore; any complianceScore the AI
\* reported within 0..10, including 0, is returned unchanged.
C21_DefaultOnlyWhenAbsent ==
    ParseAccepted =>
        /\ InScoreRange(ReportedCompliance) =>
                parseResult.analysis.complianceScore = ReportedCompliance
        /\ ReportedCompliance = Absent => parseResult.analysis.complianceScore = Num(5)
        /\ (parseResult.analysis.complianceScore = Num(5) /\ ReportedCompliance # Num(5)) =>
                ReportedCompliance \in {Absent, Null}

ListMembers == {"changes", "missingClauses", "risks", "keyTerms"}

\* C22: after parseAIResponse accepts a response, changes, missingClauses,
\* risks and keyTerms are always lists (an absent or null field becomes the
\* empty list), so the mapping of changes in analyzeContract never fails
\* because a list is missing or is not a list.
C22_ListsAfterParse ==
    ParseAccepted =>
        \A member \in ListMembers :
            /\ parseResult.analysis[member].t = "arr"
            /\ Carried[member] \in {Absent, Null} =>
                    parseResult.analysis[member] = Arr(<<>>)

(***************************************************************************)
(* DocumentProcessor.processWordDocument                                   *)
(***************************************************************************)
MaxMessages == 2

\* filename.split('.').pop(): the characters behind the last "."
lastPiece(name) ==
    LET dots == {i \in 1..Len(name) : name[i] = "."}
    IN  IF dots = {} THEN name
        ELSE SubSeq(name, 1 + (CHOOSE i \in dots : \A j \in dots : j <= i), Len(name))

\* what the mimeTypes object literal inherits from Object.prototype under a
\* lower-case name: "constructor" is the function Object and "__proto__" is
\* Object.prototype itself; neither is a string and both are truthy. The
\* value returned is a string Str(..) or one of these two
FunctionObject == [t |-> "function", name |-> "Object"]

ObjectPrototype == [t |-> "obj", name |-> "Object.prototype"]

\* mimeTypes[ext || ''] || 'application/octet-stream': the own members of the
\* literal, then the members it inherits, then the default
getMimeTypeFromName(filename) ==
    LET ext == lastPiece(toLowerCase(filename))
    IN  CASE ext = <<"d", "o", "c", "x">> ->
                Str("application/vnd.openxmlformats-officedocument.wordprocessingml.document")
          [] ext = <<"d", "o", "c">> -> Str("application/msword")
          [] ext = <<"p", "d", "f">> -> Str("application/pdf")
          [] ext = <<"t", "x", "t">> -> Str("text/plain")
          [] ext = <<"r", "t", "f">> -> Str("application/rtf")
          [] ext = <<"c", "o", "n", "s", "t", "r", "u", "c", "t", "o", "r">> -> FunctionObject
          [] ext = <<"_", "_", "p", "r", "o", "t", "o", "_", "_">> -> ObjectPrototype
          [] OTHER -> Str("application/octet-stream")

isErrorMessage(msg) == msg.type = "error"

\* processingErrors without the filter: the warnings are reported too
processingErrors_AllMessages(raw, converted) ==
    LET all == raw.messages \o converted.messages
    IN  [i \in 1..Len(all) |-> all[i].message]

\* [...result.messages, ...htmlResult.messages].filter(type === 'error').map(message)
processingErrors(raw, converted) ==
    LET errors == SelectSeq(raw.messages \o converted.messages, isErrorMessage)
    IN  [i \in 1..Len(errors) |-> errors[i].message]

\* the metadata of the document; the checksum and the extraction time are left out
wordMetadata(upload, raw, converted) ==
    [originalName |-> upload.name,
     mimeType |-> getMimeTypeFromName(upload.name),
     fileSize |-> upload.size,
     wordCount |-> countWords(raw.value),
     pageCount |-> estimatePageCount(raw.value),
     processingErrors |-> processingErrors(raw, converted)]

\* the document the call returns
processedDocument(upload, raw, converted) ==
    [content |-> raw.value,
     metadata |-> wordMetadata(upload, raw, converted),
     lexicalState |-> htmlToLexical(converted.value)]

\* error instanceof Error ? error.message : 'Unknown error'
errorMessageOf(error) == IF error.isError THEN error.message ELSE "Unknown error"

\* the Error the catch block throws
processingFailure(error) == Thrown("Document processing failed: " \o errorMessageOf(error))

\* the uploads (two of the names end in a member mimeTypes inherits), what
\* mammoth answers and what it rejects with
Uploads ==
    {[name |-> name, size |-> size] :
        name \in {<<"a", ".", "d", "o", "c", "x">>, <<"A", ".", "d", "o", "c">>, <<"a">>,
                  <<"c", "o", "n", "s", "t", "r", "u", "c", "t", "o", "r">>,
                  <<"A", ".", "_", "_", "p", "r", "o", "t", "o", "_", "_">>},
        size \in {0, 3}}

MammothMessages ==
    {[type |-> "warning", message |-> "w1"], [type |-> "warning", message |-> "w2"],
     [type |-> "error", message |-> "e1"], [type |-> "error", message |-> "e2"]}

RawResults ==
    {[value |-> value, messages |-> messages] :
        value \in {<<>>, <<"a", " ", "A">>}, messages \in SeqsUpTo(MammothMessages, MaxMessages)}

HtmlResults ==
    {[value |-> value, messages |-> messages] :
        value \in {<<>>, <<"<", "a", ">", "a">>},
        messages \in SeqsUpTo(MammothMessages, MaxMessages)}

Rejections ==
    {[isError |-> TRUE, message |-> "Can't find end of central directory"],
     [isError |-> TRUE, message |-> ""],
     [isError |-> FALSE]}

(***************************************************************************)
(* Specification of processWordDocument: the upload is drawn from the      *)
(* samples; mammoth answers or rejects each of the two awaited calls.      *)
(***************************************************************************)
InitProcess ==
    /\ ServiceIdle /\ HtmlIdle /\ WordsIdle /\ MapIdle /\ RetryIdle /\ AuthIdle
    /\ wordFile \in Uploads
    /\ wordPc = "extracting"
    /\ rawResult = Pending /\ htmlResult = Pending /\ processed = Pending

ProcessFrame ==
    UNCHANGED <<serviceVars, htmlVars, wordsVars, mapVars, retryVars, authVars>>

\* await mammoth.extractRawText({ buffer }) resolves
ExtractRawText ==
    /\ wordPc = "extracting"
    /\ rawResult' \in RawResults
    /\ wordPc' = "converting"
    /\ UNCHANGED <<wordFile, htmlResult, processed>>
    /\ ProcessFrame

\* await mammoth.extractRawText({ buffer }) rejects: the catch block throws
ExtractRawTextFails ==
    /\ wordPc = "extracting"
    /\ \E error \in Rejections : processed' = processingFailure(error)
    /\ wordPc' = "thrown"
    /\ UNCHANGED <<wordFile, rawResult, htmlResult>>
    /\ ProcessFrame

\* await mammoth.convertToHtml({ buffer }) resolves and the document is built
\* and returned
ConvertToHtml ==
    /\ wordPc = "converting"
    /\ \E converted \in HtmlResults :
        /\ htmlResult' = converted
        /\ processed' =
                [kind |-> "returned",
                 document |-> processedDocument(wordFile, rawResult, converted)]
    /\ wordPc' = "returned"
    /\ UNCHANGED <<wordFile, rawResult>>
    /\ ProcessFrame

\* await mammoth.convertToHtml({ buffer }) rejects: the catch block throws
ConvertToHtmlFails ==
    /\ wordPc = "converting"
    /\ \E error \in Rejections : processed' = processingFailure(error)
    /\ wordPc' = "thrown"
    /\ UNCHANGED <<wordFile, rawResult, htmlResult>>
    /\ ProcessFrame

NextProcess ==
    \/ ExtractRawText
    \/ ExtractRawTextFails
    \/ ConvertToHtml
    \/ ConvertToHtmlFails

SpecProcess == InitProcess /\ [][NextProcess]_vars

(***************************************************************************)
(* Claims about processWordDocument (checked under SpecProcess).           *)
(***************************************************************************)
ProcessEnded == wordPc \in {"returned", "thrown"}

\* the messages of type 'error' among messages, in order
RECURSIVE ErrorsAmong(_)
ErrorsAmong(messages) ==
    IF messages = <<>> THEN <<>>
    ELSE IF Head(messages).type = "error"
         THEN <<Head(messages).message>> \o ErrorsAmong(Tail(messages))
         ELSE ErrorsAmong(Tail(messages))

WarningTexts == {msg.message : msg \in {m \in MammothMessages : m.type = "warning"}}

\* C23: processWordDocument either returns a complete document (content,
\* metadata, lexicalState) or throws an Error whose message starts with
\* 'Document processing failed: '; in a returned document
\* metadata.processingErrors holds exactly the messages of type 'error' from
\* the raw-text extraction followed by those from the HTML conversion, in
\* order, and no warning-type message.
C23_DocumentOrProcessingFailure ==
    /\ ProcessEnded <=> processed # Pending
    /\ ProcessEnded =>
        \/ /\ wordPc = "returned"
           /\ processed.kind = "returned"
           /\ DOMAIN processed.document = {"content", "metadata", "lexicalState"}
           /\ processed.document.content = rawResult.value
           /\ processed.document.lexicalState = htmlToLexical(htmlResult.value)
           /\ processed.document.metadata.originalName = wordFile.name
           /\ processed.document.metadata.processingErrors =
                    ErrorsAmong(rawResult.messages) \o ErrorsAmong(htmlResult.messages)
           /\ \A i \in 1..Len(processed.document.metadata.processingErrors) :
                    processed.document.metadata.processingErrors[i] \notin WarningTexts
        \/ /\ wordPc = "thrown"
           /\ processed.kind = "thrown"
           /\ StartsWith(processed.message, "Document processing failed: ")

\* a returned document whose extraction and conversion both reported a warning
\* and an error: the two errors are listed, extraction first
C23_Witness ==
    /\ wordPc = "returned"
    /\ rawResult.messages = <<[type |-> "warning", message |-> "w1"],
                              [type |-> "error", message |-> "e2"]>>
    /\ htmlResult.messages = <<[type |-> "error", message |-> "e1"],
                               [type |-> "warning", message |-> "w2"]>>
    /\ processed.document.metadata.processingErrors = <<"e2", "e1">>

\* the conversion was rejected with a value that is no Error
C23_WitnessThrown ==
    /\ wordPc = "thrown"
    /\ rawResult # Pending
    /\ processed.message = "Document processing failed: Unknown error"

====
